---- MODULE Spec2Model ----
(***************************************************************************)
(* Model of the OpenSAND return-link DAMA controller for DVB-RCS2          *)
(* (DamaCtrlRcs2Legacy): per superframe, the carriers' capacity is         *)
(* initialised, then the RBDC, VBDC and FCA phases allocate it to the      *)
(* terminals of each category's carrier.                                   *)
(*                                                                         *)
(* Rates that the code holds in a double (the fair share, the fair RBDC    *)
(* and the RBDC credit) are exact rationals [n |-> numerator,              *)
(* d |-> denominator] in lowest terms; rate_pktpf_t / rate_kbps_t values   *)
(* are naturals.                                                           *)
(***************************************************************************)
EXTENDS Integers, Sequences, FiniteSets, TLC

\* ------------------------------------------------------------------ bounds
\* number of superframes a behaviour runs through
MaxSuperframes == 2
\* largest RBDC request of a terminal, in kbps
MaxRbdcKbps == 4
\* largest VBDC request of a terminal, in packets
MaxVbdcPkt == 2
\* the carrier's symbol capacity per superframe is a multiple of
\* SymStep up to MaxCapUnits * SymStep
MaxCapUnits == 3
\* rate, in kbps, of one packet per superframe
SlotKbps == 2

\* granularity of the carriers' symbol capacity
SymStep == 500
\* largest number of carriers groups of a category, and of carriers of a
\* carriers group, in a configuration handed to init
MaxCarriersGroups == 2
MaxCarriersNumber == 2
\* the small contention-window maxima, multiples and initial windows of
\* the backoff configurations explored (next to a few large ones)
MaxSmallCwMax == 9
MaxSmallMultiple == 4
MaxSmallCw == 3
\* the draws of setRandom explored: those below MaxDraw and the largest
MaxDraw == 2
\* the Slotted Aloha carrier has the slots 0..MaxSlot; a packet is sent in
\* NbReplicas replicas; a terminal sends the packets 0..MaxBaseId; the
\* superframe clock runs up to MaxClockSf
MaxSlot == 2
NbReplicas == 2
MaxBaseId == 1
MaxClockSf == 2
\* the SoF frames handed to scheduleSaloha carry the numbers 0..MaxSfn (or
\* the largest one), in at most MaxSofCalls calls
MaxSfn == 2
MaxSofCalls == 3
\* a terminal's Slotted Aloha: the packets 0..MaxTalBase, a timeout of
\* 1..MaxTimeout superframes, 0..MaxNbRetransmissions retransmissions,
\* 1..MaxNbPackets packets per superframe, a contention window of at most
\* TalCwMax with the multiple TalMultiple
\* the logon requests carry the MAC ids 0..MaxMac, in at most MaxLogons
\* requests
MaxMac == 3
MaxLogons == 3
\* a fifo of at most MaxFifoSize elements of 1..MaxLength bytes, under at
\* most MaxFifoOps calls
MaxFifoSize == 2
MaxLength == 2
MaxFifoOps == 5
\* a list of at most MaxFrames complete frames
MaxFrames == 3
\* a UDP channel whose sequence numbers count modulo MaxCounter, whose
\* stacks hold MaxDataStack packets before packets are taken as lost,
\* under at most MaxDatagrams datagrams
MaxCounter == 4
MaxDataStack == 1
MaxDatagrams == 3
\* at most MaxSends calls of send
MaxSends == 5
\* an encapsulation block with NbContexts contexts whose timers last at
\* most MaxTime, under at most MaxEncapOps events
NbContexts == 2
MaxTime == 2
MaxEncapOps == 3
\* a mesh block that receives at most MaxBursts bursts, each of which
\* is followed for at most MaxCrossings moves between the channels
MaxBursts == 2
MaxCrossings == 3
MaxTalBase == 1
MaxTimeout == 2
MaxNbRetransmissions == 2
MaxNbPackets == 2
TalCwMax == 2
TalMultiple == 2
\* length of one packet, in kbits
PktKbits == 1

\* ---------------------------------------------------------------- topology
\* terminal ids and terminal categories (one carriers group per category,
\* as DamaCtrlRcs2Legacy::init requires)
Tal == {1, 2, 3}
Categories == {1, 2}

\* ---------------------------------------------------------------- helpers
Max(a, b) == IF a >= b THEN a ELSE b
Min(a, b) == IF a <= b THEN a ELSE b

RECURSIVE Gcd(_, _)
Gcd(a, b) == IF b = 0 THEN a ELSE Gcd(b, a % b)

Abs(x) == IF x < 0 THEN -x ELSE x

\* the rational n/d (d > 0) in lowest terms
Rat(n, d) ==
    LET g == Gcd(Abs(n), d)
    IN  [n |-> n \div g, d |-> d \div g]

RatInt(i) == [n |-> i, d |-> 1]
RatAdd(a, b) == Rat(a.n * b.d + b.n * a.d, a.d * b.d)
RatSub(a, b) == Rat(a.n * b.d - b.n * a.d, a.d * b.d)
RatMulInt(a, k) == Rat(a.n * k, a.d)
RatLt(a, b) == a.n * b.d < b.n * a.d
RatLe(a, b) == a.n * b.d <= b.n * a.d
\* floor() of a non-negative double
RatFloor(a) == a.n \div a.d

Range(s) == {s[i] : i \in 1..Len(s)}

RECURSIVE SumSeq(_, _)
SumSeq(s, f) == IF s = <<>> THEN 0 ELSE f[Head(s)] + SumSeq(Tail(s), f)

\* ------------------------------------------------------------------ state
VARIABLES
    pc,                  \* position in the superframe's DAMA run
    current_superframe_sf,
    update_ret,          \* value returned by the last updateCarriersAndFmts
    fca_kbps,            \* DamaCtrl::fca_kbps
    \* CarriersGroupDama, per category (one carriers group per category)
    total_capacity_sym, fmt_ids, carrier_ctxt, remaining_capacity, tal,
    \* TerminalContextDamaRcs, per terminal
    rbdc_request_kbps, max_rbdc_kbps, vbdc_request_pkt,
    rbdc_alloc_pktpf, vbdc_alloc_pkt, fca_alloc_pktpf, rbdc_credit_kbps,
    \* record of the superframe in progress, per category
    initial_capacity,    \* capacity logged "before DAMA computation"
    residue,             \* remaining capacity that the update overwrote
    rbdc_log,            \* what the RBDC phase read, computed and logged
    vbdc_log,            \* what the VBDC phase read
    fca_log,             \* what the FCA phase read and the order it served in
    fca_ret,             \* value returned by the superframe's computeDamaFca
    \* remaining-capacity statistics, per category and carriers id / per
    \* category
    carrier_return_remaining_capacity_kbps,
    category_return_remaining_capacity_kbps,
    \* DamaCtrlRcs2Legacy::init: the number of carriers of each carriers
    \* group of each category, the result of DamaCtrlRcs2::init, whether
    \* init has run and what it returned
    carriers_groups, parent_init_ret, init_done, init_ret,
    \* SlottedAlohaBackoffEied: the contention window, its maximum, the
    \* multiple and the backoff drawn by setRandom (uint16_t)
    cw, cw_max, multiple, backoff,
    backoff_log,         \* the last call made on the backoff and the cw it found
    \* SpotUpward: the Slotted Aloha NCC object (present or not) and the
    \* superframe counter; what the last scheduleSaloha returned and gave
    \* back in ack_frames and sa_burst; the bytes counted from the satellite
    saloha, super_frame_counter, schedule_ret, ack_frames, sa_burst,
    l2_from_sat_bytes,
    \* SlottedAlohaNcc: the packets received in each slot since the last
    \* schedule, the logical packets marked received, the number of
    \* schedule calls
    sa_slots, sa_received, nb_schedule,
    sof_log,             \* the last scheduleSaloha call: its SoF and what it found
    \* the gateway around SpotUpward: the replicas on their way to the
    \* gateway and each terminal's next base_id, the superframe clock, the
    \* events queued to the upward and downward channels, the superframe
    \* of the last DAMA allocation started, the ACKs emitted per packet and
    \* the superframe whose ACKs were emitted last, the payloads handed
    \* upward per packet and the schedule that found each packet clean
    in_flight, next_base, clock_sf, up_queue, down_queue, dama_alloc_sf,
    ack_count, acks_emitted_sf, payload_count, clean_sf,
    \* SlottedAlohaTal: its configuration, the packets waiting for their
    \* first transmission, the next base_id, the packets waiting for an ACK
    \* and those to be retransmitted; the number of transmissions of each
    \* packet, the packets acknowledged and those dropped after their last
    \* retransmission
    timeout, nb_max_packets, nb_max_retransmissions, tal_fifo, base_id,
    packets_wait_ack, retransmission_packets, tx_count, acked, dropped,
    \* SpotUpward's terminals: the gateway's MAC id, the input and output
    \* terminal lists, the SCPC terminals, the terminals of the Slotted
    \* Aloha context; the number of logon requests received and the last
    \* one with what it found and returned
    mac_id, input_sts, output_sts, is_tal_scpc, saloha_terminals, nb_logon,
    logon_log,
    \* DvbFifo: the queue (the length of each element), its maximum size,
    \* the statistics context, the packets and bytes that filled the fifo
    \* since the previous check, the current length, the holder of the
    \* mutex and the context being returned by getStatsCxt; the packets
    \* pushed, popped and dropped since the last flush, the sum of the
    \* contexts returned since then, the number of calls and the last one
    fifo_queue, max_size_pkt, stat_context, new_size_pkt, new_length_bytes,
    cur_length_bytes, fifo_mutex, stat_info, fifo_counted, fifo_returned,
    nb_fifo_ops, fifo_log,
    \* DvbDownward::sendBursts: the list of complete frames, what the last
    \* call returned, and for each frame of the list it was given: the
    \* frame, whether it was handed to the lower layer and how many times
    \* it was deleted
    complete_frames, send_status, frames_sent, frame_handed, frame_deleted,
    \* sat_carrier_udp_channel: data or signalling channel, whether it
    \* accepts input, the counter and the stack of each source address, the
    \* address whose stack is being sent; what the last receive returned
    \* and the packet it put in buf (none: buf is left as the caller gave
    \* it); the number of datagrams received and
    \* the last call
    is_data, m_input, udp_counters, stacks, stacked_ip, recv_ret, recv_buf,
    nb_datagrams, udp_log,
    \* the sequence number of the last packet of each source given to the
    \* caller, whether packets of the source were taken as lost since, the
    \* packet given to the caller by the last call with the one before it,
    \* and the value of sofReceived when it is the last call
    last_handed, loss_declared, handed_log, sof_ret,
    \* the sending side: whether the channel sends, the size of the
    \* sequence field, the counter, the sequence field of send_buffer, the
    \* value of the last send and the number of sends
    m_output, counter_size, send_counter, send_buffer, send_ret, nb_sends,
    \* BlockEncap: the link state with the group and terminal identifiers
    \* saved from the 'link up' message, the 'link up' messages sent to the
    \* upper layer, the timers map (timer -> context), the value of the last
    \* handler, the last call and the number of calls
    state, group_id, tal_id, link_up_sent, timers, encap_ret, encap_log,
    nb_encap_ops,
    \* BlockMesh: the architecture and the default entity of both channels,
    \* the entities handled according to the upward and to the downward
    \* channel, the burst in the block, the place it is at, the number of
    \* times it went from a channel to the opposite one, the value of the
    \* last handler, the last call and the number of bursts
    mesh_architecture, default_entity, up_handled, down_handled, burst,
    burst_at, crossings, mesh_ret, mesh_log, nb_bursts

carrierVars == <<total_capacity_sym, fmt_ids, carrier_ctxt, tal>>
logVars == <<initial_capacity, residue>>
damaVars == <<pc, current_superframe_sf, update_ret, fca_kbps,
              total_capacity_sym, fmt_ids, carrier_ctxt, remaining_capacity,
              tal, rbdc_request_kbps, max_rbdc_kbps, vbdc_request_pkt,
              rbdc_alloc_pktpf, vbdc_alloc_pkt, fca_alloc_pktpf,
              rbdc_credit_kbps, initial_capacity, residue, rbdc_log,
              vbdc_log, fca_log, fca_ret>>
statVars == <<carrier_return_remaining_capacity_kbps,
              category_return_remaining_capacity_kbps>>
initVars == <<carriers_groups, parent_init_ret, init_done, init_ret>>
eiedVars == <<cw, cw_max, multiple, backoff, backoff_log>>
upwardVars == <<saloha, super_frame_counter, schedule_ret, ack_frames,
                sa_burst, l2_from_sat_bytes, sa_slots, sa_received,
                nb_schedule, sof_log>>
gatewayVars == <<in_flight, next_base, clock_sf, up_queue, down_queue,
                 dama_alloc_sf, ack_count, acks_emitted_sf, payload_count,
                 clean_sf>>
talVars == <<timeout, nb_max_packets, nb_max_retransmissions, tal_fifo,
             base_id, packets_wait_ack, retransmission_packets, tx_count,
             acked, dropped>>
logonVars == <<mac_id, input_sts, output_sts, is_tal_scpc, saloha_terminals,
               nb_logon, logon_log>>
\* the state of the blocks around the DAMA and Slotted Aloha components
fifoVars == <<fifo_queue, max_size_pkt, stat_context, new_size_pkt,
              new_length_bytes, cur_length_bytes, fifo_mutex, stat_info,
              fifo_counted, fifo_returned, nb_fifo_ops, fifo_log>>
burstVars == <<complete_frames, send_status, frames_sent, frame_handed,
               frame_deleted>>
udpVars == <<is_data, m_input, udp_counters, stacks, stacked_ip, recv_ret,
             recv_buf, nb_datagrams, udp_log, last_handed, loss_declared,
             handed_log, sof_ret, m_output, counter_size,
             send_counter, send_buffer, send_ret, nb_sends>>
\* the sending side of the channel
udpSendVars == <<m_output, counter_size, send_counter, send_buffer, send_ret,
                 nb_sends>>
blockVars == <<logonVars, fifoVars, burstVars, udpVars>>
encapVars == <<state, group_id, tal_id, link_up_sent, timers, encap_ret,
               encap_log, nb_encap_ops>>
\* the state of the blocks above the DVB block
meshVars == <<mesh_architecture, default_entity, up_handled, down_handled,
              burst, burst_at, crossings, mesh_ret, mesh_log, nb_bursts>>
stackVars == <<encapVars, meshVars>>
\* the state of the DAMA and Slotted Aloha components and of the blocks
\* above the DVB block
notBlockVars == <<damaVars, statVars, initVars, eiedVars, upwardVars,
                  gatewayVars, talVars, stackVars>>
\* the state of the components other than the DAMA controller
notDamaVars == <<eiedVars, upwardVars, gatewayVars, talVars, blockVars,
                  stackVars>>
\* the state of the components other than the EIED backoff
notEiedVars == <<damaVars, statVars, initVars, upwardVars, gatewayVars,
                 talVars, blockVars,
                  stackVars>>
\* the state of the components other than the gateway's Slotted Aloha
notSalohaVars == <<damaVars, statVars, initVars, eiedVars, talVars,
                   blockVars,
                    stackVars>>
\* the state of the components other than the terminal's Slotted Aloha and
\* its backoff
notTalVars == <<damaVars, statVars, initVars, upwardVars, gatewayVars,
                blockVars,
                 stackVars>>
configVars == <<fca_kbps, max_rbdc_kbps, rbdc_request_kbps>>
vars == <<pc, current_superframe_sf, update_ret, fca_kbps,
          total_capacity_sym, fmt_ids, carrier_ctxt, remaining_capacity, tal,
          rbdc_request_kbps, max_rbdc_kbps, vbdc_request_pkt,
          rbdc_alloc_pktpf, vbdc_alloc_pkt, fca_alloc_pktpf, rbdc_credit_kbps,
          initial_capacity, residue, rbdc_log, vbdc_log, fca_log, fca_ret,
          carrier_return_remaining_capacity_kbps,
          category_return_remaining_capacity_kbps,
          carriers_groups, parent_init_ret, init_done, init_ret,
          cw, cw_max, multiple, backoff, backoff_log,
          saloha, super_frame_counter, schedule_ret, ack_frames, sa_burst,
          l2_from_sat_bytes, sa_slots, sa_received, nb_schedule, sof_log,
          in_flight, next_base, clock_sf, up_queue, down_queue,
          dama_alloc_sf, ack_count, acks_emitted_sf, payload_count,
          clean_sf, timeout, nb_max_packets, nb_max_retransmissions,
          tal_fifo, base_id, packets_wait_ack, retransmission_packets,
          tx_count, acked, dropped, mac_id, input_sts, output_sts,
          is_tal_scpc, saloha_terminals, nb_logon, logon_log, fifo_queue,
          max_size_pkt, stat_context, new_size_pkt, new_length_bytes,
          cur_length_bytes, fifo_mutex, stat_info, fifo_counted,
          fifo_returned, nb_fifo_ops, fifo_log, complete_frames,
          send_status, frames_sent, frame_handed, frame_deleted, is_data,
          m_input, udp_counters, stacks, stacked_ip, recv_ret, recv_buf,
          nb_datagrams, udp_log, last_handed, loss_declared, handed_log,
          sof_ret, m_output, counter_size, send_counter,
          send_buffer, send_ret, nb_sends, state, group_id, tal_id,
          link_up_sent, timers, encap_ret, encap_log, nb_encap_ops,
          mesh_architecture, default_entity, up_handled, down_handled, burst,
          burst_at, crossings, mesh_ret, mesh_log, nb_bursts>>

\* ------------------------------------------------------- unit conversions
\* FmtDefinitionTable::symToKbits: spectral efficiency times symbols / 1000
SpectralEfficiency(id) == id
symToKbits(id, sym) == (SpectralEfficiency(id) * sym) \div 1000
\* UnitConverter::kbitsToPkt, floored to whole packets
kbitsToPkt(kb) == kb \div PktKbits
\* UnitConverter::kbpsToPktpf, floored to whole packets per superframe
kbpsToPktpf(kbps) == kbps \div SlotKbps
\* UnitConverter::pktpfToKbps of a whole number of packets
pktpfToKbps(pktpf) == pktpf * SlotKbps
\* pktpfToKbps of the fractional fair RBDC (a double in the code)
pktpfToKbpsFrac(r) == RatMulInt(r, SlotKbps)
\* UnitConverter::pktToKbits
pktToKbits(pkt) == pkt * PktKbits

\* "a - b > limit" on two unsigned rate_pktpf_t: below zero the
\* difference wraps around to a value close to the largest unsigned
UnsignedDiffExceeds(a, b, limit) == IF a >= b THEN a - b > limit ELSE TRUE

\* ------------------------------------------------- TerminalContextDamaRcs
\* addRbdcCredit: the credit is a carry-over that saturates at 0
addRbdcCredit(credit, delta) ==
    LET c == RatAdd(credit, delta)
    IN  IF c.n < 0 THEN RatInt(0) ELSE c

\* setVbdcAllocation: the allocation is taken off the pending request
setVbdcAllocation(st, t, alloc_pkt) ==
    [st EXCEPT !.alloc[t] = alloc_pkt,
               !.request[t] = @ - Min(@, alloc_pkt)]

\* std::stable_sort with a comparator "key of e1 > key of e2": descending
\* keys, elements of equal key in their former order
RECURSIVE InsertByKey(_, _, _)
InsertByKey(sorted, x, key) ==
    IF sorted = <<>> THEN <<x>>
    ELSE IF RatLt(key[Head(sorted)], key[x])
         THEN <<x>> \o sorted
         ELSE <<Head(sorted)>> \o InsertByKey(Tail(sorted), x, key)

RECURSIVE StableSortDesc(_, _, _)
StableSortDesc(done, todo, key) ==
    IF todo = <<>> THEN done
    ELSE StableSortDesc(InsertByKey(done, Head(todo), key), Tail(todo), key)

\* TerminalContextDamaRcs::sortByRemainingCredit
sortByRemainingCredit(ts, credit) == StableSortDesc(<<>>, ts, credit)
\* TerminalContextDamaRcs::sortByVbdcReq
sortByVbdcReq(ts, request) ==
    StableSortDesc(<<>>, ts, [t \in DOMAIN request |-> RatInt(request[t])])

\* ------------------------------------------------------------ RBDC phase
\* variant of FairShare: the ratio is not forced to 1.0 without congestion
FairShareUnforced(total_request_pktpf, remaining_capacity_pktpf) ==
    Rat(total_request_pktpf, remaining_capacity_pktpf)

\* variant of FairShare: the division is done on the integers
FairShareIntegerDivision(total_request_pktpf, remaining_capacity_pktpf) ==
    LET fs == RatInt(total_request_pktpf \div remaining_capacity_pktpf)
    IN  IF RatLt(fs, RatInt(1)) THEN RatInt(1) ELSE fs

\* fair_share = total_request_pktpf / remaining_capacity_pktpf, forced to
\* 1.0 when there is no congestion
FairShare(total_request_pktpf, remaining_capacity_pktpf) ==
    LET fs == Rat(total_request_pktpf, remaining_capacity_pktpf)
    IN  IF RatLt(fs, RatInt(1)) THEN RatInt(1) ELSE fs

\* fair_rbdc_pktpf = request_pktpf / fair_share
FairRbdc(request_pktpf, fair_share) ==
    Rat(request_pktpf * fair_share.d, fair_share.n)

\* first step: serve the integer part of the fair RBDC.  st.last is the
\* function's variable rbdc_alloc_pktpf, which the loop leaves at the
\* allocation of the terminal it visited last.
RECURSIVE RbdcStep1(_, _, _, _)
RbdcStep1(ts, request, fair_share, st) ==
    IF ts = <<>> THEN st
    ELSE LET t == Head(ts)
             fair_rbdc_pktpf == FairRbdc(request[t], fair_share)
             alloc == RatFloor(fair_rbdc_pktpf)
             decimal == RatSub(fair_rbdc_pktpf, RatInt(alloc))
         IN  RbdcStep1(Tail(ts), request, fair_share,
                [st EXCEPT
                   !.alloc[t] = alloc,
                   !.remaining = @ - alloc,
                   !.last = alloc,
                   !.credit[t] = IF RatLt(RatInt(1), fair_share)
                                 THEN addRbdcCredit(@, pktpfToKbpsFrac(decimal))
                                 ELSE @])

\* the test that guards the extra packet of the second step
EnoughForExtra(max_rbdc_pktpf, alloc_pktpf) ==
    UnsignedDiffExceeds(max_rbdc_pktpf, alloc_pktpf, 1)

\* second step: one extra packet to the terminals whose credit exceeds a slot
RECURSIVE RbdcStep2(_, _, _)
RbdcStep2(ts, max_kbps, st) ==
    IF ts = <<>> \/ st.remaining = 0 THEN st
    ELSE LET t == Head(ts)
             slot_kbps == pktpfToKbps(1)
             over_slot == RatLt(RatInt(slot_kbps), st.credit[t])
             award == /\ over_slot
                      /\ EnoughForExtra(kbpsToPktpf(max_kbps[t]), st.last)
             seen == IF over_slot
                     THEN [st EXCEPT !.over_slot = @ \cup {t}]
                     ELSE st
         IN  RbdcStep2(Tail(ts), max_kbps,
                IF award
                THEN [seen EXCEPT
                        !.alloc[t] = st.last + 1,
                        !.credit[t] = addRbdcCredit(@, RatInt(-slot_kbps)),
                        !.remaining = @ - 1,
                        !.extra = @ \cup {t}]
                ELSE seen)

\* variant of RbdcNothingToDo: only the absence of requests is skipped
RbdcNothingToDoNoRequest(remaining_capacity_pktpf, total_request_pktpf) ==
    total_request_pktpf = 0

\* the two early returns of the RBDC phase: no capacity remains on the
\* carrier, or its terminals request nothing
RbdcNothingToDo(remaining_capacity_pktpf, total_request_pktpf) ==
    remaining_capacity_pktpf = 0 \/ total_request_pktpf = 0

NoRbdcLog ==
    [ran |-> FALSE, remaining_before |-> 0,
     fair_share |-> RatInt(0),
     credit_before |-> [t \in Tal |-> RatInt(0)],
     step1_alloc |-> [t \in Tal |-> 0],
     step1_credit |-> [t \in Tal |-> RatInt(0)],
     step1_remaining |-> 0, order2 |-> <<>>, over_slot |-> {}, extra |-> {},
     terminal_read |-> "none"]

\* the terminal context that the computation of request_rate_kbps reads
\* after the loop over the carrier's terminals: none when the function
\* has returned before, the last terminal of the loop, or the
\* uninitialised pointer when the loop has run over no terminal
TerminalRead(c) ==
    IF remaining_capacity[c] = 0 THEN "none"
    ELSE IF tal[c] = <<>> THEN "uninitialised"
    ELSE "last"

\* computeDamaRbdcPerCarrier on category c's carrier: the new allocations,
\* credits and remaining capacity, and the record of the run
computeDamaRbdcPerCarrier(c) ==
    LET remaining_capacity_pktpf == remaining_capacity[c]
        request == [t \in Tal |-> kbpsToPktpf(rbdc_request_kbps[t])]
        total_request_pktpf == SumSeq(tal[c], request)
        unchanged == [alloc |-> rbdc_alloc_pktpf, credit |-> rbdc_credit_kbps,
                      remaining |-> remaining_capacity_pktpf,
                      log |-> [NoRbdcLog EXCEPT
                                 !.remaining_before = remaining_capacity_pktpf,
                                 !.step1_remaining = remaining_capacity_pktpf,
                                 !.credit_before = rbdc_credit_kbps,
                                 !.terminal_read = TerminalRead(c)]]
    IN  IF RbdcNothingToDo(remaining_capacity_pktpf, total_request_pktpf)
        THEN unchanged
        ELSE
        LET fair_share == FairShare(total_request_pktpf, remaining_capacity_pktpf)
            s1 == RbdcStep1(tal[c], request, fair_share,
                     [alloc |-> rbdc_alloc_pktpf, credit |-> rbdc_credit_kbps,
                      remaining |-> remaining_capacity_pktpf, last |-> 0,
                      over_slot |-> {}, extra |-> {}])
            order2 == sortByRemainingCredit(tal[c], s1.credit)
            s2 == IF RatLt(RatInt(1), fair_share)
                  THEN RbdcStep2(order2, max_rbdc_kbps, s1)
                  ELSE s1
        IN  [alloc |-> s2.alloc, credit |-> s2.credit,
             remaining |-> s2.remaining,
             log |-> [ran |-> TRUE,
                      remaining_before |-> remaining_capacity_pktpf,
                      fair_share |-> fair_share,
                      credit_before |-> rbdc_credit_kbps,
                      step1_alloc |-> s1.alloc,
                      step1_credit |-> s1.credit,
                      step1_remaining |-> s1.remaining,
                      order2 |-> IF RatLt(RatInt(1), fair_share)
                                 THEN order2 ELSE <<>>,
                      over_slot |-> s2.over_slot,
                      extra |-> s2.extra,
                      terminal_read |-> TerminalRead(c)]]

\* the category whose carrier a terminal is assigned to (0: none)
CategoryOf(t) ==
    IF \E c \in Categories : t \in Range(tal[c])
    THEN CHOOSE c \in Categories : t \in Range(tal[c])
    ELSE 0

\* ------------------------------------------------------------ VBDC phase
\* variant of VbdcServe: a request that does not fit is passed over and the
\* terminals after it are still served
RECURSIVE VbdcServeSkipping(_, _)
VbdcServeSkipping(ts, st) ==
    IF ts = <<>> THEN st
    ELSE LET t == Head(ts)
             request_pkt == st.request[t]
         IN  IF request_pkt = 0 \/ request_pkt > st.remaining
             THEN VbdcServeSkipping(Tail(ts), st)
             ELSE VbdcServeSkipping(Tail(ts),
                     [setVbdcAllocation(st, t, request_pkt) EXCEPT
                        !.remaining = @ - request_pkt])

\* the loop that serves the sorted terminals.  st.partial is set by the
\* branch that serves a request in part and returns from the function.
RECURSIVE VbdcServe(_, _)
VbdcServe(ts, st) ==
    IF ts = <<>> THEN st
    ELSE LET t == Head(ts)
             request_pkt == st.request[t]
         IN  IF request_pkt = 0 THEN VbdcServe(Tail(ts), st)
             ELSE IF request_pkt <= st.remaining
             THEN VbdcServe(Tail(ts),
                     [setVbdcAllocation(st, t, request_pkt) EXCEPT
                        !.remaining = @ - request_pkt])
             ELSE [setVbdcAllocation(st, t, st.remaining) EXCEPT
                     !.partial = TRUE]

NoVbdcLog ==
    [ran |-> FALSE, remaining_before |-> 0,
     request_before |-> [t \in Tal |-> 0], order |-> <<>>, partial |-> FALSE]

\* computeDamaVbdcPerCarrier on category c's carrier.  remaining is the
\* value the carrier holds when the function returns: the partial branch
\* returns before carriers->setRemainingCapacity().
computeDamaVbdcPerCarrier(c) ==
    LET remaining_capacity_pktpf == remaining_capacity[c]
        unchanged == [alloc |-> vbdc_alloc_pkt, request |-> vbdc_request_pkt,
                      remaining |-> remaining_capacity_pktpf,
                      log |-> [NoVbdcLog EXCEPT
                                 !.remaining_before = remaining_capacity_pktpf,
                                 !.request_before = vbdc_request_pkt]]
    IN  IF remaining_capacity_pktpf = 0 \/ tal[c] = <<>> THEN unchanged
        ELSE
        LET order == sortByVbdcReq(sortByVbdcReq(tal[c], vbdc_request_pkt),
                                   vbdc_request_pkt)
            s == VbdcServe(order,
                    [alloc |-> vbdc_alloc_pkt, request |-> vbdc_request_pkt,
                     remaining |-> remaining_capacity_pktpf,
                     partial |-> FALSE])
        IN  [alloc |-> s.alloc, request |-> s.request,
             remaining |-> IF s.partial THEN remaining_capacity_pktpf
                           ELSE s.remaining,
             log |-> [ran |-> TRUE,
                      remaining_before |-> remaining_capacity_pktpf,
                      request_before |-> vbdc_request_pkt,
                      order |-> order, partial |-> s.partial]]

\* ------------------------------------------------------------- FCA phase
RECURSIVE FcaServe(_, _, _)
FcaServe(ts, fca_pktpf, st) ==
    IF ts = <<>> THEN st
    ELSE LET t == Head(ts)
         IN  FcaServe(Tail(ts), fca_pktpf,
                IF st.remaining > fca_pktpf
                THEN [st EXCEPT !.alloc[t] = fca_pktpf,
                                !.remaining = @ - fca_pktpf]
                ELSE [st EXCEPT !.alloc[t] = st.remaining,
                                !.remaining = 0])

NoFcaLog == [ran |-> FALSE, remaining_before |-> 0, order |-> <<>>]

\* computeDamaFcaPerCarrier on category c's carrier
computeDamaFcaPerCarrier(c) ==
    LET fca_pktpf == kbpsToPktpf(fca_kbps)
        remaining_capacity_pktpf == remaining_capacity[c]
        unchanged == [alloc |-> fca_alloc_pktpf,
                      remaining |-> remaining_capacity_pktpf,
                      log |-> [NoFcaLog EXCEPT
                                 !.remaining_before = remaining_capacity_pktpf]]
    IN  IF tal[c] = <<>> \/ remaining_capacity_pktpf <= 0 THEN unchanged
        ELSE
        LET order == sortByRemainingCredit(tal[c], rbdc_credit_kbps)
            s == FcaServe(order, fca_pktpf,
                    [alloc |-> fca_alloc_pktpf,
                     remaining |-> remaining_capacity_pktpf])
        IN  [alloc |-> s.alloc, remaining |-> s.remaining,
             log |-> [ran |-> TRUE,
                      remaining_before |-> remaining_capacity_pktpf,
                      order |-> order]]

\* variant of computeDamaFcaRet: a disabled FCA is reported as a failure
computeDamaFcaRetFailsDisabled == fca_kbps # 0

\* the value computeDamaFca returns, with FCA disabled or enabled
computeDamaFcaRet == TRUE

\* -------------------------------------------------------------- statistics
\* the id of a category's single carriers group
CarriersId(c) == 1

\* what the RBDC phase takes off the remaining-capacity statistics of
\* category c: the rate of every step-1 allocation and one slot for every
\* extra packet
RbdcStatKbps(c, log) ==
    SumSeq(tal[c], [t \in Tal |-> pktpfToKbps(log.step1_alloc[t])])
    + Cardinality(log.extra) * pktpfToKbps(1)

\* what the VBDC phase takes off them: the volume of every allocation
VbdcStatKbps(c, alloc) ==
    SumSeq(tal[c], [t \in Tal |-> pktToKbits(alloc[t])])

\* what the FCA phase takes off them: the rate of every allocation
FcaStatKbps(c, alloc) ==
    SumSeq(tal[c], [t \in Tal |-> pktpfToKbps(alloc[t])])

\* the per-carrier statistics with d[c] taken off the entry of category
\* c's carriers group
CarrierStatsMinus(stat, d) ==
    [c \in DOMAIN stat |->
        [i \in DOMAIN stat[c] |->
            IF i = CarriersId(c) THEN stat[c][i] - d[c] ELSE stat[c][i]]]

\* the statistics with d[c] taken off category c's entries
StatsMinus(stat, d) ==
    [c \in DOMAIN stat |->
        IF c \in DOMAIN d THEN stat[c] - d[c] ELSE stat[c]]

\* ----------------------------------------------- capacity initialisation
\* variant of CarrierCapacityPktpf: the capacity is added to what the
\* previous superframe left
CarrierCapacityPlusResidue(c) ==
    kbitsToPkt(symToKbits(Head(fmt_ids[c]), total_capacity_sym[c]))
    + remaining_capacity[c]

\* the capacity updateCarriersAndFmts gives category c's carrier: symbols
\* to kbits with the first MODCOD of the carrier, kbits to packets
CarrierCapacityPktpf(c) ==
    kbitsToPkt(symToKbits(Head(fmt_ids[c]), total_capacity_sym[c]))

\* the capacity in kbits that updateCarriersAndFmts puts in the statistics
CarrierCapacityKb(c) == symToKbits(Head(fmt_ids[c]), total_capacity_sym[c])

\* the categories updateCarriersAndFmts initialises before it returns:
\* all of them, or those before the first one whose context is missing
UpdatedCategories ==
    {c \in Categories : \A b \in Categories : b <= c => carrier_ctxt[b]}

\* ------------------------------------------------------------------ inputs
CapacitySyms == {k * SymStep : k \in 0..MaxCapUnits}
\* the MODCOD ids a carrier allows, low to high
FmtLists == {<<2, 3>>, <<1, 2>>}
\* terminals of each category's carrier, in the order of the category's list
TalLayouts ==
    {<<(<<1, 2>>), (<<>>)>>, <<(<<1>>), (<<2>>)>>, <<(<<1, 2, 3>>), (<<>>)>>}
\* the terminals that are logged on in a layout
Logged(layout) == UNION {Range(layout[c]) : c \in Categories}
\* the RBDC requests (kbps) a terminal may hold: any rate up to
\* MaxRbdcKbps, whole slots when three terminals share the carrier, and
\* none for a terminal that is not logged on
RbdcChoices(layout, t) ==
    IF t \notin Logged(layout) THEN {0}
    ELSE IF Cardinality(Logged(layout)) > 2
         THEN {k * SlotKbps : k \in 0..(MaxRbdcKbps \div SlotKbps)}
         ELSE 0..MaxRbdcKbps
\* the VBDC requests (packets) a terminal may hold
VbdcChoices(layout, t) ==
    IF t \notin Logged(layout) THEN {0} ELSE 0..MaxVbdcPkt
CtxtLayouts == {<<TRUE, TRUE>>, <<TRUE, FALSE>>, <<FALSE, TRUE>>}
\* max_rbdc_kbps of the configuration: the largest request, or twice it
MaxRbdcChoices == {MaxRbdcKbps, 2 * MaxRbdcKbps}
FcaChoices == {0, SlotKbps}

\* the state DamaCtrlRcs2Legacy::init leaves when it succeeds: one carriers
\* group of one carrier per category, and the statistics' entries at 0
InitSucceeded ==
    /\ carriers_groups = [c \in Categories |-> <<1>>]
    /\ parent_init_ret = TRUE
    /\ init_done = TRUE
    /\ init_ret = TRUE
    /\ carrier_return_remaining_capacity_kbps =
          [c \in Categories |-> [i \in {CarriersId(c)} |-> 0]]
    /\ category_return_remaining_capacity_kbps = [c \in Categories |-> 0]

\* ------------------------------------------------- gateway, Slotted Aloha
\* largest uint16_t
Uint16Max == 65535
\* the terminals of the Slotted Aloha category and the carrier's slots
SaTerminals == {1, 2}
Slots == 0..MaxSlot
\* the logical packets (tal_id, base_id)
LogicalPackets == SaTerminals \X (0..MaxBaseId)
\* scheduleSaloha's dvb_frame when it is NULL
NoFrame == -1
EmptySlots == [s \in Slots |-> {}]
NoSofLog == [called |-> FALSE, sfn |-> NoFrame, sof_before |-> FALSE,
             counter_before |-> 0, nb_schedule_before |-> 0]

\* SpotUpward as constructed, with or without Slotted Aloha
SpotUpwardConstructed ==
    /\ super_frame_counter = 0
    /\ schedule_ret = TRUE
    /\ ack_frames = <<>>
    /\ sa_burst = <<>>
    /\ l2_from_sat_bytes = 0
    /\ sa_slots = EmptySlots
    /\ sa_received = {}
    /\ nb_schedule = 0
    /\ sof_log = NoSofLog

\* the MAC ids of the gateways and of the logon requests
GwIds == {0, 1}
Macs == 0..MaxMac
NoLogonLog == [called |-> FALSE, mac |-> 0, is_scpc |-> FALSE, ret |-> TRUE,
               input_before |-> {}, output_before |-> {},
               scpc_before |-> <<>>, saloha_before |-> {}]

\* SpotUpward's terminal lists as constructed
NoTerminals ==
    /\ input_sts = {}
    /\ output_sts = {}
    /\ is_tal_scpc = <<>>
    /\ saloha_terminals = {}
    /\ nb_logon = 0
    /\ logon_log = NoLogonLog

\* a spot that receives no logon request
LogonIdle == mac_id = 0 /\ NoTerminals

\* a statistics context with every counter at zero
ZeroStats == [current_pkt_nbr |-> 0, current_length_bytes |-> 0,
              in_pkt_nbr |-> 0, out_pkt_nbr |-> 0, in_length_bytes |-> 0,
              out_length_bytes |-> 0, drop_pkt_nbr |-> 0, drop_bytes |-> 0]
ZeroCounts == [in |-> 0, out |-> 0, drop |-> 0]
NoFifoLog == [op |-> "none", prev_op |-> "none", ret |-> TRUE,
              queue_before |-> <<>>, stat_before |-> ZeroStats]

\* DvbFifo as constructed, empty
FifoEmpty ==
    /\ fifo_queue = <<>>
    /\ stat_context = ZeroStats
    /\ new_size_pkt = 0
    /\ new_length_bytes = 0
    /\ cur_length_bytes = 0
    /\ fifo_mutex = "free"
    /\ stat_info = ZeroStats
    /\ fifo_counted = ZeroCounts
    /\ fifo_returned = ZeroCounts
    /\ nb_fifo_ops = 0
    /\ fifo_log = NoFifoLog

\* a fifo that is not used
FifoIdle == max_size_pkt = 0 /\ FifoEmpty

\* the frames of a list: a NULL pointer, a frame of total length 0, a
\* frame with content
FrameKinds == {"null", "empty", "full"}

\* sendBursts not called yet
NoBurstSent ==
    /\ send_status = TRUE
    /\ frames_sent = <<>>
    /\ frame_handed = <<>>
    /\ frame_deleted = <<>>

\* no frame to send
BurstsIdle == complete_frames = <<>> /\ NoBurstSent

\* the source addresses of the datagrams; the empty address
Sources == {1, 2}
NoIp == 0
\* no entry in udp_counters
NoCounter == -1
\* buf when no packet was put in it
NoPacket == [ip |-> NoIp, seq |-> NoCounter]
NoUdpLog == [call |-> "none", ip |-> NoIp, seq |-> NoCounter,
             short |-> FALSE, wrapped_length |-> FALSE,
             new_source |-> FALSE, gap |-> FALSE, end_dereferenced |-> FALSE,
             counter_before |-> NoCounter, loop_entered |-> FALSE,
             loop_exits |-> FALSE, loop_steps |-> 0]
\* no packet was given to the caller yet
NoHanded == [ip |-> NoIp, seq |-> NoCounter, prev |-> NoCounter,
             after_loss |-> FALSE]

\* sat_carrier_udp_channel as constructed: no counter, no stack
UdpEmpty ==
    /\ udp_counters = [ip \in Sources |-> NoCounter]
    /\ stacks = [ip \in Sources |-> {}]
    /\ stacked_ip = NoIp
    /\ recv_ret = 0
    /\ recv_buf = NoPacket
    /\ nb_datagrams = 0
    /\ udp_log = NoUdpLog
    /\ last_handed = [ip \in Sources |-> NoCounter]
    /\ loss_declared = [ip \in Sources |-> FALSE]
    /\ handed_log = NoHanded
    /\ sof_ret = FALSE
    /\ send_buffer = <<>>
    /\ send_ret = TRUE
    /\ nb_sends = 0

\* a channel that receives nothing
UdpIdle ==
    /\ is_data = FALSE
    /\ m_input = FALSE
    /\ m_output = FALSE
    /\ counter_size = 1
    /\ send_counter = 0
    /\ UdpEmpty

\* no call of BlockEncap's handlers yet
NoEncapLog == [call |-> "none", found |-> FALSE, armed_at_flush |-> FALSE,
               timers_before |-> <<>>]

\* BlockEncap as constructed
EncapConstructed ==
    /\ state = "link_down"
    /\ group_id = -1
    /\ tal_id = -1
    /\ link_up_sent = <<>>
    /\ timers = <<>>
    /\ encap_ret = TRUE
    /\ encap_log = NoEncapLog
    /\ nb_encap_ops = 0

\* the entities of the configuration with their types
Entities == {1, 2, 3}
EntityType == [e \in Entities |->
                 IF e = 1 THEN "terminal"
                 ELSE IF e = 2 THEN "gateway" ELSE "satellite"]

\* no burst in the mesh block
NoBurst == [empty |-> TRUE, src |-> 1, dest |-> 1]
NoMeshLog == [call |-> "none", forwarded |-> FALSE]
MeshEmpty ==
    /\ up_handled = {}
    /\ down_handled = {}
    /\ burst = NoBurst
    /\ burst_at = "none"
    /\ crossings = 0
    /\ mesh_ret = TRUE
    /\ mesh_log = NoMeshLog
    /\ nb_bursts = 0

\* a mesh block that receives nothing
MeshIdle == mesh_architecture = FALSE /\ default_entity = 2 /\ MeshEmpty

\* the blocks above the DVB block, idle
StackIdle == EncapConstructed /\ MeshIdle

\* the blocks around the DAMA and Slotted Aloha components, idle
BlocksIdle == LogonIdle /\ FifoIdle /\ BurstsIdle /\ UdpIdle

\* the gateway's Slotted Aloha round before its first superframe
SalohaGatewayIdle ==
    /\ in_flight = {}
    /\ next_base = [t \in SaTerminals |-> 0]
    /\ clock_sf = 0
    /\ up_queue = <<>>
    /\ down_queue = <<>>
    /\ dama_alloc_sf = 0
    /\ ack_count = [p \in LogicalPackets |-> 0]
    /\ acks_emitted_sf = 0
    /\ payload_count = [p \in LogicalPackets |-> 0]
    /\ clean_sf = [p \in LogicalPackets |-> 0]

\* the gateway before its first superframe
GatewayIdle == SalohaGatewayIdle /\ BlocksIdle

\* the packets a terminal sends
TalPackets == 0..MaxTalBase

\* SlottedAlohaTal with nothing received from the encapsulation
TalIdle ==
    /\ tal_fifo = <<>>
    /\ base_id = 0
    /\ packets_wait_ack = {}
    /\ retransmission_packets = <<>>
    /\ tx_count = [b \in TalPackets |-> 0]
    /\ acked = {}
    /\ dropped = {}

\* no terminal
NoTal == timeout = 0 /\ nb_max_packets = 0 /\ nb_max_retransmissions = 0
         /\ TalIdle

\* a gateway without Slotted Aloha that has received nothing
NoSaloha == saloha = FALSE /\ SpotUpwardConstructed /\ GatewayIdle /\ NoTal

\* no backoff object
NoBackoff ==
    /\ cw = 0 /\ cw_max = 0 /\ multiple = 0 /\ backoff = 0
    /\ backoff_log = [call |-> "none", cw_before |-> 0]

\* the components that take no part in the DAMA controller's runs
NotDamaUnused == NoBackoff /\ NoSaloha

Init ==
    /\ pc = "idle"
    /\ current_superframe_sf = 0
    /\ update_ret = TRUE
    /\ InitSucceeded
    /\ NotDamaUnused
    /\ StackIdle
    /\ fca_kbps \in FcaChoices
    /\ \E sym \in CapacitySyms : total_capacity_sym = [c \in Categories |-> sym]
    /\ tal \in TalLayouts
    \* the categories' carriers allow the same MODCODs, or, with one
    \* terminal in each category, the first category's allow lower ones
    /\ \E f \in FmtLists :
          /\ fmt_ids = [c \in Categories |-> IF c = 1 THEN f ELSE <<2, 3>>]
          /\ f # <<2, 3>> => \A c \in Categories : Len(tal[c]) = 1
    /\ remaining_capacity = [c \in Categories |-> 0]
    /\ \E m \in MaxRbdcChoices : max_rbdc_kbps = [t \in Tal |-> m]
    /\ \/ /\ carrier_ctxt = [c \in Categories |-> TRUE]
          /\ rbdc_request_kbps \in [Tal -> 0..MaxRbdcKbps]
          /\ \A t \in Tal : rbdc_request_kbps[t] \in RbdcChoices(tal, t)
          /\ vbdc_request_pkt \in [Tal -> 0..MaxVbdcPkt]
          /\ \A t \in Tal : vbdc_request_pkt[t] \in VbdcChoices(tal, t)
       \/ \* a carrier without context: no DAMA phase runs, whatever
          \* the requests
          /\ carrier_ctxt \in CtxtLayouts \ {[c \in Categories |-> TRUE]}
          /\ fmt_ids[1] = <<2, 3>>
          /\ rbdc_request_kbps
               = [t \in Tal |-> IF t \in Logged(tal) THEN MaxRbdcKbps ELSE 0]
          /\ vbdc_request_pkt
               = [t \in Tal |-> IF t \in Logged(tal) THEN MaxVbdcPkt ELSE 0]
    /\ rbdc_alloc_pktpf = [t \in Tal |-> 0]
    /\ vbdc_alloc_pkt = [t \in Tal |-> 0]
    /\ fca_alloc_pktpf = [t \in Tal |-> 0]
    /\ rbdc_credit_kbps = [t \in Tal |-> RatInt(0)]
    /\ initial_capacity = [c \in Categories |-> 0]
    /\ residue = [c \in Categories |-> 0]
    /\ rbdc_log = [c \in Categories |-> NoRbdcLog]
    /\ vbdc_log = [c \in Categories |-> NoVbdcLog]
    /\ fca_log = [c \in Categories |-> NoFcaLog]
    /\ fca_ret = FALSE

\* ----------------------------------------------------------------- actions
\* start of a superframe's DAMA run: the allocations of the previous
\* superframe are cleared
StartSuperframe ==
    /\ pc = "idle"
    /\ current_superframe_sf < MaxSuperframes
    /\ current_superframe_sf' = current_superframe_sf + 1
    /\ rbdc_alloc_pktpf' = [t \in Tal |-> 0]
    /\ vbdc_alloc_pkt' = [t \in Tal |-> 0]
    /\ fca_alloc_pktpf' = [t \in Tal |-> 0]
    /\ rbdc_log' = [c \in Categories |-> NoRbdcLog]
    /\ vbdc_log' = [c \in Categories |-> NoVbdcLog]
    /\ fca_log' = [c \in Categories |-> NoFcaLog]
    /\ fca_ret' = FALSE
    /\ pc' = "update"
    /\ UNCHANGED <<update_ret, remaining_capacity, vbdc_request_pkt,
                   rbdc_credit_kbps, logVars, carrierVars, configVars,
                   statVars, initVars, notDamaVars>>

\* DamaCtrlRcs2Legacy::updateCarriersAndFmts
updateCarriersAndFmts ==
    /\ pc = "update"
    /\ remaining_capacity' =
          [c \in Categories |-> IF c \in UpdatedCategories
                                THEN CarrierCapacityPktpf(c)
                                ELSE remaining_capacity[c]]
    /\ initial_capacity' =
          [c \in Categories |-> IF c \in UpdatedCategories
                                THEN CarrierCapacityPktpf(c)
                                ELSE initial_capacity[c]]
    /\ residue' =
          [c \in Categories |-> IF c \in UpdatedCategories
                                THEN remaining_capacity[c]
                                ELSE residue[c]]
    /\ carrier_return_remaining_capacity_kbps' =
          [c \in Categories |->
              IF c \in UpdatedCategories
              THEN [i \in DOMAIN carrier_return_remaining_capacity_kbps[c]
                             \cup {CarriersId(c)} |->
                      IF i = CarriersId(c) THEN CarrierCapacityKb(c)
                      ELSE carrier_return_remaining_capacity_kbps[c][i]]
              ELSE carrier_return_remaining_capacity_kbps[c]]
    /\ category_return_remaining_capacity_kbps' =
          [c \in Categories |->
              IF c \in UpdatedCategories THEN CarrierCapacityKb(c)
              ELSE category_return_remaining_capacity_kbps[c]]
    /\ update_ret' = (UpdatedCategories = Categories)
    /\ pc' = IF update_ret' THEN "rbdc" ELSE "idle"
    /\ UNCHANGED <<current_superframe_sf, vbdc_request_pkt, rbdc_alloc_pktpf,
                   vbdc_alloc_pkt, fca_alloc_pktpf, rbdc_credit_kbps,
                   rbdc_log, vbdc_log, fca_log, fca_ret, carrierVars,
                   configVars, initVars, notDamaVars>>

\* DamaCtrlRcs2Legacy::computeDamaRbdc: every category's carrier in turn;
\* the carriers have no terminal in common
computeDamaRbdc ==
    /\ pc = "rbdc"
    /\ LET r == [c \in Categories |-> computeDamaRbdcPerCarrier(c)] IN
           /\ rbdc_log' = [c \in Categories |-> r[c].log]
           /\ \/ /\ rbdc_alloc_pktpf' =
                       [t \in Tal |->
                          IF CategoryOf(t) = 0 THEN rbdc_alloc_pktpf[t]
                          ELSE r[CategoryOf(t)].alloc[t]]
                 /\ rbdc_credit_kbps' =
                       [t \in Tal |->
                          IF CategoryOf(t) = 0 THEN rbdc_credit_kbps[t]
                          ELSE r[CategoryOf(t)].credit[t]]
                 /\ remaining_capacity' =
                       [c \in Categories |-> r[c].remaining]
                 /\ LET d == [c \in Categories |->
                                RbdcStatKbps(c, r[c].log)] IN
                        /\ carrier_return_remaining_capacity_kbps' =
                              CarrierStatsMinus(
                                 carrier_return_remaining_capacity_kbps, d)
                        /\ category_return_remaining_capacity_kbps' =
                              StatsMinus(
                                 category_return_remaining_capacity_kbps, d)
                 /\ pc' = "vbdc"
              \* the call through the uninitialised pointer ends the
              \* process
              \/ /\ \E c \in Categories :
                       r[c].log.terminal_read = "uninitialised"
                 /\ pc' = "crashed"
                 /\ UNCHANGED <<rbdc_alloc_pktpf, rbdc_credit_kbps,
                                remaining_capacity,
                                carrier_return_remaining_capacity_kbps,
                                category_return_remaining_capacity_kbps>>
    /\ UNCHANGED <<current_superframe_sf, update_ret, vbdc_request_pkt,
                   vbdc_alloc_pkt, fca_alloc_pktpf, logVars,
                   vbdc_log, fca_log, fca_ret, carrierVars, configVars,
                   initVars, notDamaVars>>

\* DamaCtrlRcs2Legacy::computeDamaVbdc
computeDamaVbdc ==
    /\ pc = "vbdc"
    /\ LET r == [c \in Categories |-> computeDamaVbdcPerCarrier(c)] IN
           /\ vbdc_alloc_pkt' =
                 [t \in Tal |-> IF CategoryOf(t) = 0 THEN vbdc_alloc_pkt[t]
                                ELSE r[CategoryOf(t)].alloc[t]]
           /\ vbdc_request_pkt' =
                 [t \in Tal |-> IF CategoryOf(t) = 0 THEN vbdc_request_pkt[t]
                                ELSE r[CategoryOf(t)].request[t]]
           /\ remaining_capacity' =
                 [c \in Categories |-> r[c].remaining]
           /\ vbdc_log' = [c \in Categories |-> r[c].log]
           /\ LET d == [c \in Categories |-> VbdcStatKbps(c, r[c].alloc)] IN
                  /\ carrier_return_remaining_capacity_kbps' =
                        CarrierStatsMinus(
                           carrier_return_remaining_capacity_kbps, d)
                  /\ category_return_remaining_capacity_kbps' =
                        StatsMinus(category_return_remaining_capacity_kbps, d)
    /\ pc' = "fca"
    /\ UNCHANGED <<current_superframe_sf, update_ret, rbdc_alloc_pktpf,
                   fca_alloc_pktpf, rbdc_credit_kbps, logVars,
                   rbdc_log, fca_log, fca_ret, carrierVars, configVars,
                   initVars, notDamaVars>>

\* DamaCtrlRcs2Legacy::computeDamaFca
computeDamaFca ==
    /\ pc = "fca"
    /\ IF fca_kbps = 0
       THEN UNCHANGED <<fca_alloc_pktpf, remaining_capacity, fca_log,
                        statVars>>
       ELSE LET r == [c \in Categories |-> computeDamaFcaPerCarrier(c)] IN
            /\ fca_alloc_pktpf' =
                  [t \in Tal |-> IF CategoryOf(t) = 0 THEN fca_alloc_pktpf[t]
                                 ELSE r[CategoryOf(t)].alloc[t]]
            /\ remaining_capacity' =
                  [c \in Categories |-> r[c].remaining]
            /\ fca_log' = [c \in Categories |-> r[c].log]
            /\ LET d == [c \in Categories |-> FcaStatKbps(c, r[c].alloc)] IN
                   /\ carrier_return_remaining_capacity_kbps' =
                         CarrierStatsMinus(
                            carrier_return_remaining_capacity_kbps, d)
                   /\ category_return_remaining_capacity_kbps' =
                         StatsMinus(category_return_remaining_capacity_kbps, d)
    /\ fca_ret' = computeDamaFcaRet
    /\ pc' = "idle"
    /\ UNCHANGED <<current_superframe_sf, update_ret, vbdc_request_pkt,
                   rbdc_alloc_pktpf, vbdc_alloc_pkt, rbdc_credit_kbps,
                   logVars, rbdc_log, vbdc_log, carrierVars,
                   configVars, initVars, notDamaVars>>

\* -------------------------------------------- DamaCtrlRcs2Legacy::init
\* a DAMA controller that has allocated nothing yet
DamaConstructed ==
    /\ pc = "idle"
    /\ current_superframe_sf = 0
    /\ update_ret = TRUE
    /\ fca_kbps = 0
    /\ total_capacity_sym = [c \in Categories |-> 0]
    /\ fmt_ids = [c \in Categories |-> <<2, 3>>]
    /\ carrier_ctxt = [c \in Categories |-> TRUE]
    /\ remaining_capacity = [c \in Categories |-> 0]
    /\ tal = [c \in Categories |-> <<>>]
    /\ rbdc_request_kbps = [t \in Tal |-> 0]
    /\ max_rbdc_kbps = [t \in Tal |-> MaxRbdcKbps]
    /\ vbdc_request_pkt = [t \in Tal |-> 0]
    /\ rbdc_alloc_pktpf = [t \in Tal |-> 0]
    /\ vbdc_alloc_pkt = [t \in Tal |-> 0]
    /\ fca_alloc_pktpf = [t \in Tal |-> 0]
    /\ rbdc_credit_kbps = [t \in Tal |-> RatInt(0)]
    /\ initial_capacity = [c \in Categories |-> 0]
    /\ residue = [c \in Categories |-> 0]
    /\ rbdc_log = [c \in Categories |-> NoRbdcLog]
    /\ vbdc_log = [c \in Categories |-> NoVbdcLog]
    /\ fca_log = [c \in Categories |-> NoFcaLog]
    /\ fca_ret = FALSE

\* the carriers groups a configuration may give a category: the number of
\* carriers of each group
GroupLayouts ==
    UNION {[1..n -> 1..MaxCarriersNumber] : n \in 1..MaxCarriersGroups}

\* the controller as constructed, before init: any carriers plan, no
\* statistic registered yet
InitConfig ==
    /\ DamaConstructed
    /\ StackIdle
    /\ NotDamaUnused
    /\ carriers_groups \in [Categories -> GroupLayouts]
    /\ parent_init_ret \in BOOLEAN
    /\ init_done = FALSE
    /\ init_ret = FALSE
    /\ carrier_return_remaining_capacity_kbps = [c \in Categories |-> <<>>]
    /\ category_return_remaining_capacity_kbps = <<>>

\* variant of MoreThanOneCarrier: only the number of carriers groups is
\* limited
MoreThanOneCarriersGroup(c) == Len(carriers_groups[c]) > 1

\* the test init makes on a category
MoreThanOneCarrier(c) ==
    Len(carriers_groups[c]) > 1 \/ carriers_groups[c][1] > 1

\* the categories init registers statistics for: none when
\* DamaCtrlRcs2::init fails, else those before the first category that
\* fails the test
RegisteredCategories ==
    IF ~parent_init_ret THEN {}
    ELSE {c \in Categories :
            \A b \in Categories : b <= c => ~MoreThanOneCarrier(b)}

\* DamaCtrlRcs2Legacy::init
init ==
    /\ ~init_done
    /\ init_done' = TRUE
    /\ init_ret' = (parent_init_ret /\ RegisteredCategories = Categories)
    /\ carrier_return_remaining_capacity_kbps' =
          [c \in Categories |->
              IF c \in RegisteredCategories
              THEN [i \in {CarriersId(c)} |-> 0]
              ELSE carrier_return_remaining_capacity_kbps[c]]
    /\ category_return_remaining_capacity_kbps' =
          [c \in RegisteredCategories |-> 0]
    /\ UNCHANGED <<carriers_groups, parent_init_ret, damaVars, notDamaVars>>

InitNext == init

InitSpec == InitConfig /\ [][InitNext]_vars

Next ==
    \/ StartSuperframe
    \/ updateCarriersAndFmts
    \/ computeDamaRbdc
    \/ computeDamaVbdc
    \/ computeDamaFca

Spec == Init /\ [][Next]_vars

\* ------------------------------------------------ SlottedAlohaBackoffEied
\* (int)sqrt(n) of a uint16_t
ISqrt(n) == CHOOSE r \in 0..255 : r * r <= n /\ n < (r + 1) * (r + 1)

\* whether the int product of two uint16_t exceeds INT_MAX (2^31 - 1)
IntProductOverflows(a, b) ==
    a * (b \div 256) + (a * (b % 256)) \div 256 >= 8388608

\* the low 16 bits of the product of two uint16_t
ProductLow16(a, b) ==
    (((a * (b \div 256)) % 256) * 256 + a * (b % 256)) % 65536

\* the values "cw = fmin((int)cw * (int)factor, cw_max)" can leave in cw.
\* The product is an int: when it overflows the behaviour is undefined,
\* and the builds leave the wrapped product's low 16 bits or, where the
\* conversion of a negative double to unsigned saturates, 0.
WindowTimes(window, factor, window_max) ==
    IF IntProductOverflows(window, factor)
    THEN {ProductLow16(window, factor), 0}
    ELSE {Min(window * factor, window_max)}

\* the factor of setOk: (int)sqrt(multiple)
OkFactor(m) == ISqrt(m)

\* the factor of setNok: (int)multiple
NokFactor(m) == m

\* SlottedAlohaBackoff::setRandom: a backoff drawn in [0, cw)
RandomDraws(window) ==
    IF window = 0 THEN {0}
    ELSE (0..(Min(window, MaxDraw) - 1)) \cup {window - 1}

\* the configurations: cw_max and multiple, and the window the base
\* class's constructor leaves before the constructor's setOk
CwMaxChoices == (0..MaxSmallCwMax) \cup {40000, Uint16Max}
MultipleChoices == (0..MaxSmallMultiple) \cup {9, 16, 60001}
FirstCwChoices == (0..MaxSmallCw) \cup {Uint16Max}

\* the state after SlottedAlohaBackoffEied's constructor, which ends with
\* a call of setOk
EiedInit ==
    /\ DamaConstructed
    /\ StackIdle
    /\ InitSucceeded
    /\ NoSaloha
    /\ cw_max \in CwMaxChoices
    /\ multiple \in MultipleChoices
    /\ \E first \in FirstCwChoices :
          /\ cw \in WindowTimes(first, OkFactor(multiple), cw_max)
          /\ backoff_log = [call |-> "constructor", cw_before |-> first]
    /\ backoff \in RandomDraws(cw)

\* SlottedAlohaBackoffEied::setOk
setOk ==
    /\ cw' \in WindowTimes(cw, OkFactor(multiple), cw_max)
    /\ backoff' \in RandomDraws(cw')
    /\ backoff_log' = [call |-> "setOk", cw_before |-> cw]
    /\ UNCHANGED <<cw_max, multiple, notEiedVars>>

\* SlottedAlohaBackoffEied::setNok
setNok ==
    /\ cw' \in WindowTimes(cw, NokFactor(multiple), cw_max)
    /\ backoff' \in RandomDraws(cw')
    /\ backoff_log' = [call |-> "setNok", cw_before |-> cw]
    /\ UNCHANGED <<cw_max, multiple, notEiedVars>>

EiedNext == setOk \/ setNok

EiedSpec == EiedInit /\ [][EiedNext]_vars

\* ---------------------------------------------- SpotUpward, Slotted Aloha
\* variant of AlreadyReceived: no logical packet is taken as received
NeverReceived(key, received) == FALSE

\* the logical packet key was received through an earlier replica
AlreadyReceived(key, received) == key \in received

\* SlottedAlohaNcc::schedule, slot by slot: a packet alone in its slot is
\* clean, and a logical packet with a clean replica is marked received,
\* handed upward once and acknowledged once
RECURSIVE NccResolve(_, _, _)
NccResolve(slot, slots, st) ==
    IF slot > MaxSlot THEN st
    ELSE IF Cardinality(slots[slot]) = 1
         THEN LET p == CHOOSE x \in slots[slot] : TRUE
                  key == <<p.tal, p.base>>
              IN  IF AlreadyReceived(key, st.received)
                  THEN NccResolve(slot + 1, slots, st)
                  ELSE NccResolve(slot + 1, slots,
                          [acks |-> Append(st.acks, key),
                           burst |-> Append(st.burst, key),
                           received |-> st.received \cup {key}])
         ELSE NccResolve(slot + 1, slots, st)

\* the superframe counter after a SoF numbered sfn: the counter is
\* increased, and set to sfn when it differs from it
SofCounter(counter, sfn) ==
    LET increased == (counter + 1) % (Uint16Max + 1)
    IN  IF increased # sfn THEN sfn ELSE increased

\* a SoF has been handed to scheduleSaloha in an earlier call
SofSeen == sof_log.called /\ (sof_log.sof_before \/ sof_log.sfn # NoFrame)

\* SpotUpward::scheduleSaloha(dvb_frame, ack_frames, sa_burst), dvb_frame
\* a SoF numbered sfn or NoFrame; schedule_ok is what
\* SlottedAlohaNcc::schedule returns
scheduleSaloha(sfn, schedule_ok) ==
    IF ~saloha
    THEN /\ schedule_ret' = TRUE
         /\ sof_log' = [called |-> TRUE, sfn |-> sfn,
                        sof_before |-> SofSeen,
                        counter_before |-> super_frame_counter,
                        nb_schedule_before |-> nb_schedule]
         /\ UNCHANGED <<super_frame_counter, ack_frames, sa_burst, sa_slots,
                        sa_received, nb_schedule>>
    ELSE LET counter == IF sfn = NoFrame THEN super_frame_counter
                        ELSE SofCounter(super_frame_counter, sfn)
             r == NccResolve(0, sa_slots,
                     [acks |-> <<>>, burst |-> <<>>, received |-> sa_received])
         IN  /\ super_frame_counter' = counter
             /\ nb_schedule' = nb_schedule + 1
             /\ sof_log' = [called |-> TRUE, sfn |-> sfn,
                            sof_before |-> SofSeen,
                            counter_before |-> super_frame_counter,
                            nb_schedule_before |-> nb_schedule]
             /\ schedule_ret' = schedule_ok
             /\ IF schedule_ok
                THEN /\ ack_frames' = r.acks
                     /\ sa_burst' = r.burst
                     /\ sa_received' = r.received
                     /\ sa_slots' = EmptySlots
                ELSE /\ ack_frames' = <<>>
                     /\ UNCHANGED <<sa_burst, sa_slots, sa_received>>

\* the numbers a SoF handed to scheduleSaloha may carry
SfnChoices == (0..MaxSfn) \cup {Uint16Max}

SofInit ==
    /\ DamaConstructed
    /\ StackIdle
    /\ InitSucceeded
    /\ NoBackoff
    /\ saloha \in BOOLEAN
    /\ SpotUpwardConstructed
    /\ GatewayIdle
    /\ NoTal

\* a SoF reaches SpotUpward
ReceiveSof ==
    /\ nb_schedule < MaxSofCalls
    /\ \E sfn \in SfnChoices, schedule_ok \in BOOLEAN :
          scheduleSaloha(sfn, schedule_ok)
    /\ UNCHANGED <<saloha, l2_from_sat_bytes, gatewayVars, notSalohaVars>>

\* scheduleSaloha is called without a frame
ScheduleWithoutFrame ==
    /\ nb_schedule < MaxSofCalls
    /\ \E schedule_ok \in BOOLEAN : scheduleSaloha(NoFrame, schedule_ok)
    /\ UNCHANGED <<saloha, l2_from_sat_bytes, gatewayVars, notSalohaVars>>

SofNext == ReceiveSof \/ ScheduleWithoutFrame

SofSpec == SofInit /\ [][SofNext]_vars

\* ------------------------------------------- gateway, Slotted Aloha round
\* the Slotted Aloha frames a terminal may send for its packet base: one
\* replica in each of NbReplicas distinct slots
SalohaFrames(t, base) ==
    {[tal |-> t, base |-> base, slots |-> S] :
        S \in {X \in SUBSET Slots : Cardinality(X) = NbReplicas}}

\* replica_id of the replica a frame carries in slot s
ReplicaId(f, s) == Cardinality({x \in f.slots : x < s})

\* the logical packet p has a replica alone in its slot
HasCleanReplica(p, slots) ==
    \E s \in Slots : /\ Cardinality(slots[s]) = 1
                      /\ \A x \in slots[s] : <<x.tal, x.base>> = p

\* the logical packet p has replicas in the slot table
InSlots(p, slots) ==
    \E s \in Slots : \E x \in slots[s] : <<x.tal, x.base>> = p

\* number of elements of the sequence seq that equal p
RECURSIVE CountIn(_, _)
CountIn(seq, p) ==
    IF seq = <<>> THEN 0
    ELSE (IF Head(seq) = p THEN 1 ELSE 0) + CountIn(Tail(seq), p)

\* variant of InputDrained: the clock only waits for the frames in flight
InputDrainedFramesOnly == in_flight = {}

\* the input of the running superframe is drained: no frame is in flight
\* and the upward channel has processed its messages
InputDrained == in_flight = {} /\ up_queue = <<>>

SalohaInit ==
    /\ DamaConstructed
    /\ StackIdle
    /\ InitSucceeded
    /\ NoBackoff
    /\ saloha = TRUE
    /\ SpotUpwardConstructed
    /\ GatewayIdle
    /\ NoTal

\* a terminal sends the replicas of its next packet
SendSalohaData(t) ==
    /\ next_base[t] <= MaxBaseId
    /\ \A f \in in_flight : f.tal # t
    /\ \A s \in Slots : \A x \in sa_slots[s] : x.tal # t
    /\ \E f \in SalohaFrames(t, next_base[t]) : in_flight' = in_flight \cup {f}
    /\ next_base' = [next_base EXCEPT ![t] = @ + 1]
    /\ UNCHANGED <<clock_sf, up_queue, down_queue, dama_alloc_sf, ack_count,
                   acks_emitted_sf, payload_count, clean_sf, upwardVars,
                   notSalohaVars>>

\* SpotUpward::handleSlottedAlohaFrame(frame): the statistics, then
\* SlottedAlohaNcc::onRcvFrame, which stores the replicas in their slots
handleSlottedAlohaFrame(f) ==
    /\ f \in in_flight
    /\ in_flight' = in_flight \ {f}
    /\ l2_from_sat_bytes' = l2_from_sat_bytes + Cardinality(f.slots)
    /\ sa_slots' = [s \in Slots |->
                      IF s \in f.slots
                      THEN sa_slots[s] \cup {[tal |-> f.tal, base |-> f.base,
                                              replica |-> ReplicaId(f, s)]}
                      ELSE sa_slots[s]]
    /\ UNCHANGED <<saloha, super_frame_counter, schedule_ret, ack_frames,
                   sa_burst, sa_received, nb_schedule, sof_log, next_base,
                   clock_sf, up_queue, down_queue, dama_alloc_sf, ack_count,
                   acks_emitted_sf, payload_count, clean_sf, notSalohaVars>>

\* the clock emits the SoF of the next superframe to both channels once
\* the input of the running one is drained
ClockSof ==
    /\ clock_sf < MaxClockSf
    /\ InputDrained
    /\ clock_sf' = clock_sf + 1
    /\ up_queue' = Append(up_queue, [type |-> "sof", sfn |-> clock_sf + 1])
    /\ down_queue' = Append(down_queue, [type |-> "sof", sfn |-> clock_sf + 1,
                                         acks |-> <<>>])
    /\ UNCHANGED <<in_flight, next_base, dama_alloc_sf, ack_count,
                   acks_emitted_sf, payload_count, clean_sf, upwardVars,
                   notSalohaVars>>

\* the upward channel receives the SoF: scheduleSaloha, then the ACK frames
\* are sent to the downward channel
UpwardOnSof ==
    /\ up_queue # <<>>
    /\ scheduleSaloha(Head(up_queue).sfn, TRUE)
    /\ up_queue' = Tail(up_queue)
    /\ down_queue' = Append(down_queue,
                         [type |-> "saloha", sfn |-> super_frame_counter',
                          acks |-> ack_frames'])
    /\ payload_count' = [p \in LogicalPackets |->
                           payload_count[p] + CountIn(sa_burst', p)]
    /\ clean_sf' = [p \in LogicalPackets |->
                      IF HasCleanReplica(p, sa_slots)
                      THEN super_frame_counter' ELSE clean_sf[p]]
    /\ UNCHANGED <<saloha, l2_from_sat_bytes, in_flight, next_base, clock_sf,
                   dama_alloc_sf, ack_count, acks_emitted_sf, notSalohaVars>>

\* the downward channel receives the SoF: the capacity allocation of that
\* superframe begins
DownwardOnSof ==
    /\ down_queue # <<>>
    /\ Head(down_queue).type = "sof"
    /\ dama_alloc_sf' = Head(down_queue).sfn
    /\ down_queue' = Tail(down_queue)
    /\ UNCHANGED <<in_flight, next_base, clock_sf, up_queue, ack_count,
                   acks_emitted_sf, payload_count, clean_sf, upwardVars,
                   notSalohaVars>>

\* SpotDownward::handleMsgSaloha(ack_frames): the ACK frames are emitted
handleMsgSaloha ==
    /\ down_queue # <<>>
    /\ Head(down_queue).type = "saloha"
    /\ ack_count' = [p \in LogicalPackets |->
                       ack_count[p] + CountIn(Head(down_queue).acks, p)]
    /\ acks_emitted_sf' = Head(down_queue).sfn
    /\ down_queue' = Tail(down_queue)
    /\ UNCHANGED <<in_flight, next_base, clock_sf, up_queue, dama_alloc_sf,
                   payload_count, clean_sf, upwardVars, notSalohaVars>>

SalohaNext ==
    \/ \E t \in SaTerminals : SendSalohaData(t)
    \/ \E f \in in_flight : handleSlottedAlohaFrame(f)
    \/ ClockSof
    \/ UpwardOnSof
    \/ DownwardOnSof
    \/ handleMsgSaloha

SalohaSpec == SalohaInit /\ [][SalohaNext]_vars

\* ------------------------------------------------ terminal, Slotted Aloha
\* variant of MayRetransmit: one retransmission more is allowed
MayRetransmitOnceMore(nb_retransmissions) ==
    nb_retransmissions <= nb_max_retransmissions + 1

\* a packet whose retransmission count has been incremented to
\* nb_retransmissions is retransmitted
MayRetransmit(nb_retransmissions) ==
    nb_retransmissions <= nb_max_retransmissions

\* the packets of the set S as a list, by increasing base_id
RECURSIVE ByBaseId(_)
ByBaseId(S) ==
    IF S = {} THEN <<>>
    ELSE LET first == CHOOSE x \in S : \A y \in S : x.base <= y.base
         IN  <<first>> \o ByBaseId(S \ {first})

\* the contention windows that k calls of setNok may leave
RECURSIVE SetNokTimes(_, _)
SetNokTimes(window, k) ==
    IF k = 0 THEN {window}
    ELSE UNION {SetNokTimes(w, k - 1) :
                   w \in WindowTimes(window, NokFactor(multiple), cw_max)}

\* the first n elements of the sequence seq
FirstOf(seq, n) == SubSeq(seq, 1, Min(n, Len(seq)))
\* the elements of the sequence seq after the first n
AfterFirst(seq, n) == SubSeq(seq, Min(n, Len(seq)) + 1, Len(seq))

TalInit ==
    /\ DamaConstructed
    /\ StackIdle
    /\ InitSucceeded
    /\ saloha = FALSE
    /\ SpotUpwardConstructed
    /\ GatewayIdle
    /\ timeout \in 1..MaxTimeout
    /\ nb_max_packets \in 1..MaxNbPackets
    /\ nb_max_retransmissions \in 0..MaxNbRetransmissions
    /\ TalIdle
    /\ cw_max = TalCwMax
    /\ multiple = TalMultiple
    /\ cw \in 1..TalCwMax
    /\ backoff = 0
    /\ backoff_log = [call |-> "constructor", cw_before |-> cw]

\* SlottedAlohaTal::onRcvEncapPacket: the packet gets the next base_id
onRcvEncapPacket ==
    /\ base_id <= MaxTalBase
    /\ tal_fifo' = Append(tal_fifo, [base |-> base_id,
                                     nb_retransmissions |-> 0])
    /\ base_id' = base_id + 1
    /\ UNCHANGED <<timeout, nb_max_packets, nb_max_retransmissions,
                   packets_wait_ack, retransmission_packets, tx_count, acked,
                   dropped, eiedVars, notTalVars>>

\* SlottedAlohaTal::schedule, once per superframe: the packets waiting
\* for an ACK since timeout superframes are retransmitted, or dropped
\* after nb_max_retransmissions retransmissions; then, when the backoff
\* has elapsed, at most nb_max_packets packets are transmitted, those to
\* be retransmitted first
schedule ==
    LET aged == {[w EXCEPT !.age = @ + 1] : w \in packets_wait_ack}
        timed_out == {w \in aged : w.age >= timeout}
        counted == {[base |-> w.base,
                     nb_retransmissions |-> w.nb_retransmissions + 1] :
                       w \in timed_out}
        again == {x \in counted : MayRetransmit(x.nb_retransmissions)}
        given_up == counted \ again
        waiting == retransmission_packets \o ByBaseId(again)
        candidates == waiting \o tal_fifo
        nb_waiting == Len(waiting)
    IN  /\ packets_wait_ack # {} \/ retransmission_packets # <<>>
           \/ tal_fifo # <<>>
        /\ dropped' = dropped \cup {x.base : x \in given_up}
        /\ \E window \in SetNokTimes(cw, Cardinality(again)) :
           \E drawn \in (IF again = {} THEN {backoff}
                          ELSE RandomDraws(window)) :
             /\ cw' = window
             /\ backoff_log' = IF again = {} THEN backoff_log
                               ELSE [call |-> "setNok", cw_before |-> cw]
             /\ IF drawn > 0
                THEN /\ backoff' = drawn - 1
                     /\ packets_wait_ack' = aged \ timed_out
                     /\ retransmission_packets' = waiting
                     /\ UNCHANGED <<tal_fifo, tx_count>>
                ELSE LET batch == FirstOf(candidates, nb_max_packets)
                         sent == {batch[i] : i \in 1..Len(batch)}
                     IN  /\ backoff' = 0
                         /\ packets_wait_ack' =
                               (aged \ timed_out) \cup
                               {[base |-> x.base,
                                 nb_retransmissions |-> x.nb_retransmissions,
                                 age |-> 0] : x \in sent}
                         /\ retransmission_packets' =
                               AfterFirst(waiting, nb_max_packets)
                         /\ tal_fifo' =
                               AfterFirst(tal_fifo,
                                          Max(nb_max_packets - nb_waiting, 0))
                         /\ tx_count' = [b \in TalPackets |->
                               IF \E x \in sent : x.base = b
                               THEN tx_count[b] + 1 ELSE tx_count[b]]
        /\ UNCHANGED <<timeout, nb_max_packets, nb_max_retransmissions,
                       base_id, acked, cw_max, multiple, notTalVars>>

\* SlottedAlohaTal::onRcvFrame with the ACK of the packet b: the packet
\* no longer waits for its ACK, and the backoff is told of the success
onRcvFrame(b) ==
    /\ \E w \in packets_wait_ack : w.base = b
    /\ packets_wait_ack' = {w \in packets_wait_ack : w.base # b}
    /\ acked' = acked \cup {b}
    /\ \E window \in WindowTimes(cw, OkFactor(multiple), cw_max) :
          /\ cw' = window
          /\ backoff' \in RandomDraws(window)
    /\ backoff_log' = [call |-> "setOk", cw_before |-> cw]
    /\ UNCHANGED <<timeout, nb_max_packets, nb_max_retransmissions, tal_fifo,
                   base_id, retransmission_packets, tx_count, dropped,
                   cw_max, multiple, notTalVars>>

TalNext ==
    \/ onRcvEncapPacket
    \/ schedule
    \/ \E b \in TalPackets : onRcvFrame(b)

TalSpec == TalInit /\ [][TalNext]_vars

\* ----------------------------------------------------- SpotUpward, logon
\* variant of IsNccIdentity: only the NCC's own MAC id is refused
IsOwnMacId(mac) == mac = mac_id

\* the MAC id is one of a gateway or the NCC's own
IsNccIdentity(mac) == mac \in GwIds \/ mac = mac_id

\* the terminal is in the input and in the output list
IsRegistered(mac) == mac \in input_sts /\ mac \in output_sts

\* SpotUpward::onRcvLogonReq for a request of the terminal mac;
\* output_ok, input_ok and saloha_ok are what addOutputTerminal,
\* addInputTerminal and SlottedAlohaNcc::addTerminal return when called
onRcvLogonReq(mac, is_scpc, output_ok, input_ok, saloha_ok) ==
    LET log == [called |-> TRUE, mac |-> mac, is_scpc |-> is_scpc,
                ret |-> TRUE, input_before |-> input_sts,
                output_before |-> output_sts, scpc_before |-> is_tal_scpc,
                saloha_before |-> saloha_terminals]
        output_called == ~IsRegistered(mac)
        output_after == IF output_called /\ output_ok
                        THEN output_sts \cup {mac} ELSE output_sts
        output_failed == output_called /\ ~output_ok
        input_called == ~(mac \in input_sts /\ mac \in output_after)
        input_failed == input_called /\ ~input_ok
    IN  /\ nb_logon' = nb_logon + 1
        /\ IF IsNccIdentity(mac)
           THEN /\ logon_log' = [log EXCEPT !.ret = FALSE]
                /\ UNCHANGED <<input_sts, output_sts, is_tal_scpc,
                               saloha_terminals>>
           ELSE IF output_failed
           THEN /\ logon_log' = [log EXCEPT !.ret = FALSE]
                /\ UNCHANGED <<input_sts, output_sts, is_tal_scpc,
                               saloha_terminals>>
           ELSE /\ output_sts' = output_after
                /\ is_tal_scpc' = IF is_scpc THEN Append(is_tal_scpc, mac)
                                  ELSE is_tal_scpc
                /\ IF input_failed
                   THEN /\ logon_log' = [log EXCEPT !.ret = FALSE]
                        /\ UNCHANGED <<input_sts, saloha_terminals>>
                   ELSE /\ input_sts' = IF input_called
                                        THEN input_sts \cup {mac}
                                        ELSE input_sts
                        /\ IF saloha
                           THEN /\ saloha_terminals' =
                                      IF saloha_ok
                                      THEN saloha_terminals \cup {mac}
                                      ELSE saloha_terminals
                                /\ logon_log' = [log EXCEPT !.ret = saloha_ok]
                           ELSE /\ logon_log' = log
                                /\ UNCHANGED saloha_terminals

LogonInit ==
    /\ DamaConstructed
    /\ StackIdle
    /\ InitSucceeded
    /\ NoBackoff
    /\ saloha \in BOOLEAN
    /\ SpotUpwardConstructed
    /\ SalohaGatewayIdle
    /\ NoTal
    /\ mac_id \in Macs
    /\ NoTerminals
    /\ FifoIdle
    /\ BurstsIdle
    /\ UdpIdle

\* a logon request reaches SpotUpward
ReceiveLogonReq ==
    /\ nb_logon < MaxLogons
    /\ \E mac \in Macs, is_scpc, output_ok, input_ok, saloha_ok \in BOOLEAN :
          onRcvLogonReq(mac, is_scpc, output_ok, input_ok, saloha_ok)
    /\ UNCHANGED <<mac_id, fifoVars, burstVars, udpVars, notBlockVars>>

LogonNext == ReceiveLogonReq

LogonSpec == LogonInit /\ [][LogonNext]_vars

\* ---------------------------------------------------------------- DvbFifo
\* variant of MutexFree: the calls do not wait for the mutex
MutexIgnored == TRUE

\* RtLock lock(fifo_mutex): the call proceeds when no other holds the mutex
MutexFree == fifo_mutex = "free"

\* variant of FifoFull: one element more is accepted
FifoOverfull(size) == size > max_size_pkt

\* accepting one more element would make the size exceed max_size_pkt
FifoFull(size) == size + 1 > max_size_pkt

\* sum of the lengths of the queued elements
RECURSIVE SumLengths(_)
SumLengths(queue) ==
    IF queue = <<>> THEN 0 ELSE Head(queue) + SumLengths(Tail(queue))

\* the call recorded as the last one
FifoCall(op, ret) ==
    [op |-> op, prev_op |-> fifo_log.op, ret |-> ret,
     queue_before |-> fifo_queue, stat_before |-> stat_context]

\* variant of resetStats: every counter goes back to zero
resetStatsEverything(stat) == ZeroStats

\* DvbFifo::resetStats: the per-period counters go back to zero
resetStats(stat) ==
    [stat EXCEPT !.in_pkt_nbr = 0, !.out_pkt_nbr = 0, !.in_length_bytes = 0,
                 !.out_length_bytes = 0, !.drop_pkt_nbr = 0, !.drop_bytes = 0]

FifoInit ==
    /\ DamaConstructed
    /\ StackIdle
    /\ InitSucceeded
    /\ NoBackoff
    /\ saloha = FALSE
    /\ SpotUpwardConstructed
    /\ SalohaGatewayIdle
    /\ NoTal
    /\ LogonIdle
    /\ BurstsIdle
    /\ UdpIdle
    /\ max_size_pkt \in 1..MaxFifoSize
    /\ FifoEmpty

\* DvbFifo::push(elem), elem of length bytes: the element is added at the
\* end, or dropped when the fifo is full
push(length) ==
    /\ MutexFree
    /\ nb_fifo_ops < MaxFifoOps
    /\ nb_fifo_ops' = nb_fifo_ops + 1
    /\ IF FifoFull(Len(fifo_queue))
       THEN /\ stat_context' =
                  [stat_context EXCEPT !.drop_pkt_nbr = @ + 1,
                                       !.drop_bytes = @ + length]
            /\ fifo_counted' = [fifo_counted EXCEPT !.drop = @ + 1]
            /\ fifo_log' = FifoCall("push", FALSE)
            /\ UNCHANGED <<fifo_queue, new_size_pkt, new_length_bytes,
                           cur_length_bytes>>
       ELSE /\ fifo_queue' = Append(fifo_queue, length)
            /\ new_size_pkt' = new_size_pkt + 1
            /\ new_length_bytes' = new_length_bytes + length
            /\ cur_length_bytes' = cur_length_bytes + length
            /\ stat_context' =
                  [stat_context EXCEPT
                     !.current_pkt_nbr = Len(fifo_queue) + 1,
                     !.current_length_bytes = @ + length,
                     !.in_pkt_nbr = @ + 1,
                     !.in_length_bytes = @ + length]
            /\ fifo_counted' = [fifo_counted EXCEPT !.in = @ + 1]
            /\ fifo_log' = FifoCall("push", TRUE)
    /\ UNCHANGED <<max_size_pkt, fifo_mutex, stat_info, fifo_returned,
                   logonVars, burstVars, udpVars, notBlockVars>>

\* DvbFifo::pushFront(elem): a fragment of an element removed before goes
\* back to the head; the in-counters are left alone
pushFront(length) ==
    /\ MutexFree
    /\ nb_fifo_ops < MaxFifoOps
    /\ nb_fifo_ops' = nb_fifo_ops + 1
    /\ IF FifoFull(Len(fifo_queue))
       THEN /\ fifo_log' = FifoCall("pushFront", FALSE)
            /\ UNCHANGED <<fifo_queue, cur_length_bytes, stat_context>>
       ELSE /\ fifo_queue' = <<length>> \o fifo_queue
            /\ cur_length_bytes' = cur_length_bytes + length
            /\ stat_context' =
                  [stat_context EXCEPT
                     !.current_pkt_nbr = Len(fifo_queue) + 1,
                     !.current_length_bytes = @ + length]
            /\ fifo_log' = FifoCall("pushFront", TRUE)
    /\ UNCHANGED <<max_size_pkt, new_size_pkt, new_length_bytes, fifo_mutex,
                   stat_info, fifo_counted, fifo_returned, logonVars,
                   burstVars, udpVars, notBlockVars>>

\* DvbFifo::pushBack(elem): as pushFront, at the back of the list
pushBack(length) ==
    /\ MutexFree
    /\ nb_fifo_ops < MaxFifoOps
    /\ nb_fifo_ops' = nb_fifo_ops + 1
    /\ IF FifoFull(Len(fifo_queue))
       THEN /\ fifo_log' = FifoCall("pushBack", FALSE)
            /\ UNCHANGED <<fifo_queue, cur_length_bytes, stat_context>>
       ELSE /\ fifo_queue' = Append(fifo_queue, length)
            /\ cur_length_bytes' = cur_length_bytes + length
            /\ stat_context' =
                  [stat_context EXCEPT
                     !.current_pkt_nbr = Len(fifo_queue) + 1,
                     !.current_length_bytes = @ + length]
            /\ fifo_log' = FifoCall("pushBack", TRUE)
    /\ UNCHANGED <<max_size_pkt, new_size_pkt, new_length_bytes, fifo_mutex,
                   stat_info, fifo_counted, fifo_returned, logonVars,
                   burstVars, udpVars, notBlockVars>>

\* DvbFifo::pop(): the head element, or NULL (ret FALSE) on an empty fifo
pop ==
    /\ MutexFree
    /\ nb_fifo_ops < MaxFifoOps
    /\ nb_fifo_ops' = nb_fifo_ops + 1
    /\ IF fifo_queue = <<>>
       THEN /\ fifo_log' = FifoCall("pop", FALSE)
            /\ UNCHANGED <<fifo_queue, cur_length_bytes, stat_context,
                           fifo_counted>>
       ELSE /\ fifo_queue' = Tail(fifo_queue)
            /\ cur_length_bytes' = cur_length_bytes - Head(fifo_queue)
            /\ stat_context' =
                  [stat_context EXCEPT
                     !.current_pkt_nbr = Len(fifo_queue) - 1,
                     !.current_length_bytes = @ - Head(fifo_queue),
                     !.out_pkt_nbr = @ + 1,
                     !.out_length_bytes = @ + Head(fifo_queue)]
            /\ fifo_counted' = [fifo_counted EXCEPT !.out = @ + 1]
            /\ fifo_log' = FifoCall("pop", TRUE)
    /\ UNCHANGED <<max_size_pkt, new_size_pkt, new_length_bytes, fifo_mutex,
                   stat_info, fifo_returned, logonVars, burstVars, udpVars, notBlockVars>>

\* DvbFifo::flush(): the fifo is emptied and the counters are reset
flush ==
    /\ MutexFree
    /\ nb_fifo_ops < MaxFifoOps
    /\ nb_fifo_ops' = nb_fifo_ops + 1
    /\ fifo_queue' = <<>>
    /\ new_size_pkt' = 0
    /\ new_length_bytes' = 0
    /\ cur_length_bytes' = 0
    /\ stat_context' = ZeroStats
    /\ fifo_counted' = ZeroCounts
    /\ fifo_returned' = ZeroCounts
    /\ fifo_log' = FifoCall("flush", TRUE)
    /\ UNCHANGED <<max_size_pkt, fifo_mutex, stat_info, logonVars,
                   burstVars, udpVars, notBlockVars>>

\* DvbFifo::getStatsCxt(stat_info), first half: the mutex is taken and the
\* context is copied
getStatsCxtCopy ==
    /\ fifo_mutex = "free"
    /\ nb_fifo_ops < MaxFifoOps
    /\ nb_fifo_ops' = nb_fifo_ops + 1
    /\ fifo_mutex' = "getStatsCxt"
    /\ stat_info' = stat_context
    /\ fifo_returned' =
          [in |-> fifo_returned.in + stat_context.in_pkt_nbr,
           out |-> fifo_returned.out + stat_context.out_pkt_nbr,
           drop |-> fifo_returned.drop + stat_context.drop_pkt_nbr]
    /\ fifo_log' = FifoCall("getStatsCxt", TRUE)
    /\ UNCHANGED <<fifo_queue, max_size_pkt, stat_context, new_size_pkt,
                   new_length_bytes, cur_length_bytes, fifo_counted,
                   logonVars, burstVars, udpVars, notBlockVars>>

\* DvbFifo::getStatsCxt, second half: the counters are reset and the mutex
\* is released
getStatsCxtReset ==
    /\ fifo_mutex = "getStatsCxt"
    /\ stat_context' = resetStats(stat_context)
    /\ fifo_mutex' = "free"
    /\ UNCHANGED <<fifo_queue, max_size_pkt, new_size_pkt, new_length_bytes,
                   cur_length_bytes, stat_info, fifo_counted, fifo_returned,
                   nb_fifo_ops, fifo_log, logonVars, burstVars, udpVars, notBlockVars>>

FifoNext ==
    \/ \E length \in 1..MaxLength : push(length)
    \/ \E length \in 1..MaxLength : pushFront(length)
    \/ \E length \in 1..MaxLength : pushBack(length)
    \/ pop
    \/ flush
    \/ getStatsCxtCopy
    \/ getStatsCxtReset

FifoSpec == FifoInit /\ [][FifoNext]_vars

\* ------------------------------------------------- DvbDownward, sending
\* DvbDownward::sendDvbFrame(dvb_frame, carrier_id); enqueue_ok is what
\* enqueueMessage returns. Gives what the call returns, whether the frame
\* went to the lower layer and how many times it was deleted
sendDvbFrame(frame, enqueue_ok) ==
    IF frame = "null"
    THEN [ret |-> FALSE, handed |-> FALSE, deleted |-> 0]
    ELSE IF frame = "empty"
    THEN [ret |-> FALSE, handed |-> FALSE, deleted |-> 0]
    ELSE IF ~enqueue_ok
    THEN [ret |-> FALSE, handed |-> FALSE, deleted |-> 1]
    ELSE [ret |-> TRUE, handed |-> TRUE, deleted |-> 0]

\* one turn of the loop of sendBursts on the frame
SendOne(frame, enqueue_ok) ==
    LET sent == sendDvbFrame(frame, enqueue_ok)
    IN  IF ~sent.ret
        THEN [sent EXCEPT !.deleted = IF frame # "null" THEN @ + 1 ELSE @]
        ELSE sent

BurstsInit ==
    /\ DamaConstructed
    /\ StackIdle
    /\ InitSucceeded
    /\ NoBackoff
    /\ saloha = FALSE
    /\ SpotUpwardConstructed
    /\ SalohaGatewayIdle
    /\ NoTal
    /\ LogonIdle
    /\ FifoIdle
    /\ UdpIdle
    /\ complete_frames \in UNION {[1..n -> FrameKinds] : n \in 0..MaxFrames}
    /\ NoBurstSent

\* DvbDownward::sendBursts(complete_frames, carrier_id); enqueue_ok[i] is
\* what enqueueMessage returns for the i-th frame
sendBursts ==
    /\ frames_sent = <<>>
    /\ \E enqueue_ok \in [1..Len(complete_frames) -> BOOLEAN] :
         LET turn == [i \in 1..Len(complete_frames) |->
                        SendOne(complete_frames[i], enqueue_ok[i])]
         IN  /\ send_status' = \A i \in 1..Len(complete_frames) : turn[i].ret
             /\ frame_handed' =
                   [i \in 1..Len(complete_frames) |-> turn[i].handed]
             /\ frame_deleted' =
                   [i \in 1..Len(complete_frames) |-> turn[i].deleted]
    /\ frames_sent' = complete_frames
    /\ complete_frames' = <<>>
    /\ UNCHANGED <<logonVars, fifoVars, udpVars, notBlockVars>>

BurstsNext == sendBursts

BurstsSpec == BurstsInit /\ [][BurstsNext]_vars

\* ------------------------------------------------ sat_carrier_udp_channel
\* the sequence number after seq
NextSeq(seq) == (seq + 1) % MaxCounter

\* UdpStack::hasNext(counter): a packet numbered counter is in the stack
hasNext(stack, counter) == counter \in stack

\* the number of steps from counter to the first sequence number that
\* is in the (non-empty) stack
RECURSIVE FirstStacked(_, _)
FirstStacked(stack, counter) ==
    IF hasNext(stack, counter) THEN counter
    ELSE FirstStacked(stack, NextSeq(counter))

\* handleStack(buf, data_len, counter, stack) for the address ip: the
\* packet numbered counter leaves the stack for buf, and stacked_ip is
\* reset when the next one is not in the stack
handleStack4(ip, stack, counter, stacked) ==
    [buf |-> IF counter \in stack THEN [ip |-> ip, seq |-> counter]
             ELSE NoPacket,
     stack |-> stack \ {counter},
     stacked_ip |-> IF ~hasNext(stack \ {counter}, NextSeq(counter))
                    THEN NoIp ELSE stacked]

\* handleStack(buf, data_len): sends the next packet of stacked_ip's stack
\* and moves the counter on when more packets follow
handleStack2 ==
    LET h == handleStack4(stacked_ip, stacks[stacked_ip],
                          udp_counters[stacked_ip], stacked_ip)
    IN  /\ recv_buf' = h.buf
        /\ stacks' = [stacks EXCEPT ![stacked_ip] = h.stack]
        /\ stacked_ip' = h.stacked_ip
        /\ udp_counters' =
              IF h.stacked_ip # NoIp
              THEN [udp_counters EXCEPT
                      ![stacked_ip] = NextSeq(udp_counters[stacked_ip])]
              ELSE udp_counters
        /\ recv_ret' = IF h.stacked_ip # NoIp THEN 1 ELSE 0

\* the call recorded as the last one
UdpCall(call, ip, seq, short) ==
    [call |-> call, ip |-> ip, seq |-> seq, short |-> short,
     wrapped_length |-> FALSE, new_source |-> FALSE, gap |-> FALSE,
     end_dereferenced |-> FALSE, counter_before |-> NoCounter,
     loop_entered |-> FALSE, loop_exits |-> FALSE, loop_steps |-> 0]

\* receive fails before reading the datagram
ReceiveError(log) ==
    /\ recv_ret' = -1
    /\ recv_buf' = NoPacket
    /\ udp_log' = log
    /\ UNCHANGED <<udp_counters, stacks, stacked_ip>>

\* sat_carrier_udp_channel::receiveSig for a datagram of the address ip
\* numbered seq: the datagram is copied into buf, then its number is
\* compared with the counter, which becomes that number
receiveSig(ip, seq, log) ==
    /\ recv_ret' = 0
    /\ recv_buf' = [ip |-> ip, seq |-> seq]
    /\ udp_counters' = [udp_counters EXCEPT ![ip] = seq]
    /\ udp_log' =
          [log EXCEPT !.new_source = udp_counters[ip] = NoCounter,
                      !.gap = /\ udp_counters[ip] # NoCounter
                              /\ NextSeq(udp_counters[ip]) # seq,
                      !.counter_before = udp_counters[ip]]
    /\ UNCHANGED <<stacks, stacked_ip>>

\* receive on a data channel whose stacked_ip is empty, for a datagram of
\* a source that has no counter yet
receiveNewSource(ip, seq, log) ==
    LET h == handleStack4(ip, {seq}, seq, stacked_ip)
    IN  /\ recv_buf' = h.buf
        /\ stacks' = [stacks EXCEPT ![ip] = h.stack]
        /\ stacked_ip' = h.stacked_ip
        /\ recv_ret' = IF h.stacked_ip # NoIp THEN 1 ELSE 0
        \* line 378 assigns through ip_count_it, which is end()
        /\ \E counter \in 0..(MaxCounter - 1) :
              udp_counters' = [udp_counters EXCEPT ![ip] = counter]
        /\ udp_log' = [log EXCEPT !.new_source = TRUE,
                                  !.end_dereferenced = TRUE]

\* the stack holds more packets than MAX_DATA_STACK
StackOverflowsAlways(stack) == Cardinality(stack) >= 0
StackOverflows(stack) == Cardinality(stack) > MaxDataStack

\* the loop that skips the missing sequence numbers, entered at counter:
\* whether it exits, the counter it exits with and the number of times it
\* has incremented the counter
skipMissing(stack, counter) ==
    LET exits == \E k \in 0..(MaxCounter - 1) :
                    hasNext(stack, (counter + k) % MaxCounter)
        last == IF exits THEN FirstStacked(stack, counter) ELSE counter
    IN  [exits |-> exits,
         counter |-> last,
         steps |-> IF exits THEN (last - counter + MaxCounter) % MaxCounter
                   ELSE MaxCounter]

\* receive on a data channel whose stacked_ip is empty, for a datagram of
\* a source that has a counter
receiveKnownSource(ip, seq, log) ==
    LET current == NextSeq(udp_counters[ip])
        added == stacks[ip] \cup {seq}
        found == hasNext(added, current)
        h == IF found THEN handleStack4(ip, added, current, stacked_ip)
             ELSE [buf |-> NoPacket, stack |-> added,
                   stacked_ip |-> stacked_ip]
        handed == IF found THEN [ip |-> ip, seq |-> current] ELSE NoPacket
        counter == IF found THEN current ELSE udp_counters[ip]
        too_many == StackOverflows(h.stack)
        skip == skipMissing(h.stack, NextSeq(current))
    IN  /\ recv_buf' = handed
        /\ stacks' = [stacks EXCEPT ![ip] = h.stack]
        /\ udp_log' = [log EXCEPT !.counter_before = udp_counters[ip],
                                  !.gap = current # seq,
                                  !.loop_entered = too_many,
                                  !.loop_exits = too_many /\ skip.exits,
                                  !.loop_steps = IF too_many THEN skip.steps
                                                 ELSE 0]
        /\ IF too_many /\ skip.exits
           THEN /\ udp_counters' =
                      [udp_counters EXCEPT ![ip] = skip.counter]
                /\ stacked_ip' = ip
                /\ recv_ret' = 1
           ELSE IF too_many
           \* the loop does not exit and the call does not return
           THEN /\ udp_counters' = [udp_counters EXCEPT ![ip] = counter]
                /\ stacked_ip' = h.stacked_ip
                /\ recv_ret' = recv_ret
           ELSE /\ udp_counters' = [udp_counters EXCEPT ![ip] = counter]
                /\ stacked_ip' = h.stacked_ip
                /\ recv_ret' = 0

\* sat_carrier_udp_channel::receive(event, buf, data_len) for a datagram
\* of the address ip, numbered seq, shorter than the counter or not;
\* crash tells whether the copy of a datagram of wrapped length fails
receive(ip, seq, short, crash) ==
    LET log == UdpCall("receive", ip, seq, short)
    IN  IF is_data /\ stacked_ip # NoIp
        THEN handleStack2 /\ udp_log' = log
        ELSE IF ~m_input
        THEN ReceiveError(log)
        ELSE IF short /\ crash
        THEN ReceiveError([log EXCEPT !.wrapped_length = TRUE])
        ELSE IF ~is_data
        THEN receiveSig(ip, seq, [log EXCEPT !.wrapped_length = short])
        ELSE IF udp_counters[ip] = NoCounter
        THEN receiveNewSource(ip, seq, [log EXCEPT !.wrapped_length = short])
        ELSE receiveKnownSource(ip, seq,
                                [log EXCEPT !.wrapped_length = short])

UdpInit ==
    /\ DamaConstructed
    /\ StackIdle
    /\ InitSucceeded
    /\ NoBackoff
    /\ saloha = FALSE
    /\ SpotUpwardConstructed
    /\ SalohaGatewayIdle
    /\ NoTal
    /\ LogonIdle
    /\ FifoIdle
    /\ BurstsIdle
    /\ is_data \in BOOLEAN
    /\ m_input \in BOOLEAN
    /\ m_output = FALSE
    /\ counter_size = 1
    /\ send_counter = 0
    /\ UdpEmpty

\* what the caller has got from the channel: the packet put in buf, the
\* one of the same source it follows, and the sources whose packets were
\* taken as lost by the call
recordHanded ==
    LET lost == [ip \in Sources |->
                   \/ loss_declared[ip]
                   \/ udp_log'.loop_entered /\ udp_log'.ip = ip]
        from == recv_buf'.ip
    IN  IF is_data /\ recv_buf' # NoPacket
        THEN /\ handed_log' = [ip |-> from, seq |-> recv_buf'.seq,
                               prev |-> last_handed[from],
                               after_loss |-> loss_declared[from]]
             /\ last_handed' = [last_handed EXCEPT ![from] = recv_buf'.seq]
             /\ loss_declared' =
                   [lost EXCEPT ![from] = /\ udp_log'.loop_entered
                                          /\ udp_log'.ip = from]
        ELSE /\ loss_declared' = lost
             /\ handed_log' = NoHanded
             /\ UNCHANGED last_handed

\* a datagram arrives on the channel's socket
ReceiveDatagram ==
    /\ nb_datagrams < MaxDatagrams
    /\ nb_datagrams' = nb_datagrams + 1
    /\ \E ip \in Sources, seq \in 0..(MaxCounter - 1), short \in BOOLEAN :
          \E crash \in IF short THEN BOOLEAN ELSE {FALSE} :
             receive(ip, seq, short, crash)
    /\ recordHanded
    /\ sof_ret' = FALSE
    /\ UNCHANGED <<is_data, m_input, udpSendVars,
                   logonVars, fifoVars, burstVars, notBlockVars>>

\* sat_carrier_udp_channel::receive(buf, data_len), called again after a
\* receive that returned 1
receiveStacked ==
    /\ recv_ret = 1
    /\ IF stacked_ip # NoIp
       THEN handleStack2
       ELSE /\ recv_ret' = 0
            /\ recv_buf' = NoPacket
            /\ UNCHANGED <<stacks, stacked_ip, udp_counters>>
    /\ udp_log' = UdpCall("receiveStacked", stacked_ip, NoCounter, FALSE)
    /\ recordHanded
    /\ sof_ret' = FALSE
    /\ UNCHANGED <<is_data, m_input, nb_datagrams,
                   udpSendVars, logonVars, fifoVars, burstVars,
                   notBlockVars>>

\* UdpStack::onTimer for the stack of ip: the timer of a stack runs out
\* while packets wait in it
stackOnTimer(ip) == udp_counters[ip] # NoCounter /\ stacks[ip] # {}

\* the stack of ip has timed out: the missing packets are taken as lost
\* and the stack is sent from the first packet it holds
stackTimeout(ip) ==
    LET skip == skipMissing(stacks[ip], NextSeq(udp_counters[ip]))
    IN  /\ udp_log' =
              [UdpCall("sofReceived", ip, NoCounter, FALSE) EXCEPT
                 !.counter_before = udp_counters[ip],
                 !.loop_entered = TRUE,
                 !.loop_exits = skip.exits,
                 !.loop_steps = skip.steps]
        /\ loss_declared' = [loss_declared EXCEPT ![ip] = TRUE]
        /\ IF skip.exits
           THEN /\ udp_counters' =
                      [udp_counters EXCEPT ![ip] = skip.counter]
                /\ stacked_ip' = ip
                /\ sof_ret' = TRUE
           \* the loop does not exit and the call does not return
           ELSE UNCHANGED <<udp_counters, stacked_ip, sof_ret>>

\* sat_carrier_udp_channel::sofReceived: the first stack whose timer has
\* run out is scheduled for sending
sofReceived ==
    /\ \/ /\ is_data
          /\ \E ip \in Sources : stackOnTimer(ip) /\ stackTimeout(ip)
       \/ /\ sof_ret' = FALSE
          /\ udp_log' = UdpCall("sofReceived", NoIp, NoCounter, FALSE)
          /\ UNCHANGED <<udp_counters, stacked_ip, loss_declared>>
    /\ recv_buf' = NoPacket
    /\ handed_log' = NoHanded
    /\ UNCHANGED <<is_data, m_input, stacks, recv_ret, nb_datagrams,
                   last_handed, udpSendVars,
                   logonVars, fifoVars, burstVars, notBlockVars>>

UdpNext == ReceiveDatagram \/ receiveStacked \/ sofReceived

UdpSpec == UdpInit /\ [][UdpNext]_vars

\* ------------------------------------------ sat_carrier_udp_channel::send
\* max_counter for a sequence field of size bytes
max_counter(size) == 2 * 2 ^ (size * 8 - 1)

\* the sequence field that send writes at the head of send_buffer
stampLowByteFirst(size, counter) ==
    IF size = 2 THEN <<counter % 256, (counter \div 256) % 256>>
    ELSE <<counter % 256>>
stamp(size, counter) ==
    IF size = 2 THEN <<(counter \div 256) % 256, counter % 256>>
    ELSE <<counter % 256>>

\* nb_sequencing as receive and receiveSig read it from a datagram
decode(size, data) ==
    IF size = 2 THEN (data[1] % 256) * 256 + (data[2] % 256)
    ELSE data[1] % 256

\* sat_carrier_udp_channel::send on a channel whose socket is open;
\* sendto_ok tells whether sendto succeeds
send(sendto_ok) ==
    IF ~m_output
    THEN /\ send_ret' = FALSE
         /\ UNCHANGED <<send_buffer, send_counter>>
    ELSE /\ send_buffer' = stamp(counter_size, send_counter)
         /\ IF sendto_ok
            THEN /\ send_counter' =
                       (send_counter + 1) % max_counter(counter_size)
                 /\ send_ret' = TRUE
            ELSE /\ send_ret' = FALSE
                 /\ UNCHANGED send_counter

\* the counters the sending side starts from: 0 as constructed, and the
\* values two sends before a byte of the counter wraps
CounterStarts(size) ==
    {0, max_counter(1) - 2} \cup {max_counter(size) - 2}

UdpSendInit ==
    /\ DamaConstructed
    /\ StackIdle
    /\ InitSucceeded
    /\ NoBackoff
    /\ saloha = FALSE
    /\ SpotUpwardConstructed
    /\ SalohaGatewayIdle
    /\ NoTal
    /\ LogonIdle
    /\ FifoIdle
    /\ BurstsIdle
    /\ is_data = FALSE
    /\ m_input = FALSE
    /\ UdpEmpty
    /\ m_output \in BOOLEAN
    /\ counter_size \in {1, 2}
    /\ send_counter \in IF m_output THEN CounterStarts(counter_size) ELSE {0}

\* a packet is sent on the channel
Send ==
    /\ nb_sends < MaxSends
    /\ nb_sends' = nb_sends + 1
    /\ \E sendto_ok \in BOOLEAN : send(sendto_ok)
    /\ UNCHANGED <<is_data, m_input, m_output, counter_size, udp_counters,
                   stacks, stacked_ip, recv_ret, recv_buf, nb_datagrams,
                   udp_log, last_handed, loss_declared, handed_log, sof_ret,
                   logonVars, fifoVars, burstVars, notBlockVars>>

UdpSendNext == Send

UdpSendSpec == UdpSendInit /\ [][UdpSendNext]_vars

\* ------------------------------------------------------------ BlockEncap
\* the 'link up' messages of the MAC layer
LinkUpMsgs == [group_id : {0, 1}, tal_id : {1, 2}]

\* the encapsulation contexts, the durations of their timers (0: no
\* timer) and the identifiers of the timer events
Contexts == 1..NbContexts
Times == 0..MaxTime
TimerIds == 1..(NbContexts + 1)

\* the time_contexts maps (duration -> context) the contexts fill
TimeContexts == UNION {[d -> Contexts] : d \in SUBSET Times}

\* the call recorded as the last one
EncapCall(call) == [NoEncapLog EXCEPT !.call = call,
                                      !.timers_before = timers]

\* BlockEncap::onUpwardEvent for a 'link up' message; sendup_ok tells
\* whether sendUp succeeds
onLinkUp(msg, sendup_ok) ==
    /\ encap_log' = EncapCall("onLinkUp")
    /\ IF state = "link_up"
       THEN /\ encap_ret' = FALSE
            /\ UNCHANGED <<state, group_id, tal_id, link_up_sent>>
       ELSE /\ group_id' = msg.group_id
            /\ tal_id' = msg.tal_id
            /\ state' = "link_up"
            /\ IF sendup_ok
               THEN /\ link_up_sent' = Append(link_up_sent, msg)
                    /\ encap_ret' = TRUE
               ELSE /\ encap_ret' = FALSE
                    /\ UNCHANGED link_up_sent

\* a timer is armed for the context in the timers map tm
TimerArmedNever(tm, ctx) == FALSE
TimerArmed(tm, ctx) == \E t \in DOMAIN tm : tm[t] = ctx

\* addTimerEvent: the identifier of the new timer event, the lowest one
\* that is free
NewTimer(tm) ==
    CHOOSE t \in TimerIds \ DOMAIN tm :
       \A u \in TimerIds \ DOMAIN tm : t <= u

\* the timers map after the entries of time_contexts for the durations
\* from time on were handled, in the order of the durations: a timer is
\* set when none is armed for the context and the duration is not null
\* (and, to bound the map, an identifier is free)
RECURSIVE armTimers(_, _, _)
armTimers(tm, time_contexts, time) ==
    IF time > MaxTime THEN tm
    ELSE IF /\ time \in DOMAIN time_contexts
            /\ ~TimerArmed(tm, time_contexts[time])
            /\ time # 0
            /\ TimerIds \ DOMAIN tm # {}
         THEN armTimers([t \in DOMAIN tm \cup {NewTimer(tm)} |->
                           IF t \in DOMAIN tm THEN tm[t]
                           ELSE time_contexts[time]],
                        time_contexts, time + 1)
         ELSE armTimers(tm, time_contexts, time + 1)

\* BlockEncap::onRcvBurstFromUp: the burst is encapsulated, which fills
\* time_contexts, the timers are set, and the encapsulated burst of size
\* packets is sent to the lower layer
onRcvBurstFromUp(burst_null, encap_ok, time_contexts, size, senddown_ok) ==
    /\ encap_log' = EncapCall("onRcvBurstFromUp")
    /\ IF burst_null \/ ~encap_ok
       THEN encap_ret' = FALSE /\ UNCHANGED timers
       ELSE /\ timers' = armTimers(timers, time_contexts, 0)
            /\ encap_ret' = (size = 0 \/ senddown_ok)

\* BlockEncap::onTimer for the timer event timer_id: the timer leaves the
\* map, then its context is flushed and the burst of size packets is sent
\* to the lower layer
onTimer(timer_id, flush_ok, size, senddown_ok) ==
    IF timer_id \notin DOMAIN timers
    THEN /\ encap_ret' = FALSE
         /\ encap_log' = EncapCall("onTimer")
         /\ UNCHANGED timers
    ELSE LET erased == [t \in DOMAIN timers \ {timer_id} |-> timers[t]]
         IN  /\ timers' = erased
             /\ encap_log' =
                   [EncapCall("onTimer") EXCEPT
                      !.found = TRUE,
                      !.armed_at_flush = timer_id \in DOMAIN erased]
             /\ encap_ret' = (flush_ok /\ (size = 0 \/ senddown_ok))

EncapInit ==
    /\ DamaConstructed
    /\ InitSucceeded
    /\ NoBackoff
    /\ saloha = FALSE
    /\ SpotUpwardConstructed
    /\ SalohaGatewayIdle
    /\ NoTal
    /\ BlocksIdle
    /\ EncapConstructed
    /\ MeshIdle

\* a 'link up' message comes from the lower layer
UpwardLinkUp ==
    /\ nb_encap_ops < MaxEncapOps
    /\ nb_encap_ops' = nb_encap_ops + 1
    /\ \E msg \in LinkUpMsgs, sendup_ok \in BOOLEAN : onLinkUp(msg, sendup_ok)
    /\ UNCHANGED <<timers, meshVars, blockVars, damaVars, statVars, initVars,
                   eiedVars, upwardVars, gatewayVars, talVars>>

\* a burst comes from the upper layer
DownwardBurst ==
    /\ nb_encap_ops < MaxEncapOps
    /\ nb_encap_ops' = nb_encap_ops + 1
    /\ \/ \E burst_null, encap_ok \in BOOLEAN :
             /\ burst_null \/ ~encap_ok
             /\ onRcvBurstFromUp(burst_null, encap_ok, <<>>, 0, FALSE)
       \/ \E time_contexts \in TimeContexts, size \in {0, 1},
             senddown_ok \in BOOLEAN :
             /\ size = 0 => senddown_ok
             /\ onRcvBurstFromUp(FALSE, TRUE, time_contexts, size,
                                 senddown_ok)
    /\ UNCHANGED <<state, group_id, tal_id, link_up_sent, meshVars, blockVars,
                   damaVars, statVars, initVars, eiedVars, upwardVars,
                   gatewayVars, talVars>>

\* a timer event, of a timer of the map or not
DownwardTimer ==
    /\ nb_encap_ops < MaxEncapOps
    /\ nb_encap_ops' = nb_encap_ops + 1
    /\ \E timer_id \in TimerIds, flush_ok, senddown_ok \in BOOLEAN,
          size \in {0, 1} :
          /\ (~flush_ok \/ size = 0) => senddown_ok
          /\ onTimer(timer_id, flush_ok, size, senddown_ok)
    /\ UNCHANGED <<state, group_id, tal_id, link_up_sent, meshVars, blockVars,
                   damaVars, statVars, initVars, eiedVars, upwardVars,
                   gatewayVars, talVars>>

EncapNext == UpwardLinkUp \/ DownwardBurst \/ DownwardTimer

EncapSpec == EncapInit /\ [][EncapNext]_vars

\* ------------------------------------------------------------- BlockMesh
\* the bursts: empty or not, with the source and destination of their
\* first packet
Bursts == [empty : BOOLEAN, src : Entities, dest : Entities]

\* Upward::handleNetBurst sends the burst via the inter-satellite link
ViaIslNever(mesh, handled, dest, default) == FALSE
ViaIsl(mesh, handled, dest, default) ==
    /\ mesh
    /\ dest \notin handled
    /\ EntityType[default] = "satellite"

\* the burst has reached place; ok tells whether the handler succeeded
MeshOutcome(call, place, ok, forwarded) ==
    /\ burst_at' = place
    /\ mesh_ret' = ok
    /\ mesh_log' = [call |-> call, forwarded |-> forwarded]
    /\ crossings' = IF forwarded THEN crossings + 1 ELSE crossings

\* BlockMesh::Upward::handleNetBurst; send_ok tells whether the message
\* or the packets could be sent
upwardHandleNetBurst(send_ok) ==
    IF burst.empty
    THEN MeshOutcome("upward", "dropped", TRUE, FALSE)
    ELSE IF ViaIsl(mesh_architecture, up_handled, burst.dest, default_entity)
    \* sendViaIsl
    THEN MeshOutcome("upward", IF send_ok THEN "isl" ELSE "failed", send_ok,
                     FALSE)
    \* sendToOppositeChannel
    ELSE MeshOutcome("upward", IF send_ok THEN "downward" ELSE "failed",
                     send_ok, send_ok)

\* the stack of the lower block for the entities of a type
LowerStack(type) == IF type = "terminal" THEN "lower_st" ELSE "lower_gw"

\* BlockMesh::Downward::handleNetBurst; send_ok tells whether the message
\* could be sent or enqueued
downwardHandleNetBurst(send_ok) ==
    LET lower(type) ==
            MeshOutcome("downward",
                        IF send_ok THEN LowerStack(type) ELSE "failed",
                        send_ok, FALSE)
        reject == MeshOutcome("downward", "rejected", FALSE, FALSE)
        dest_type == EntityType[burst.dest]
        default_entity_type == EntityType[default_entity]
        src_type == EntityType[burst.src]
    IN  IF burst.empty
        THEN MeshOutcome("downward", "dropped", TRUE, FALSE)
        ELSE IF mesh_architecture /\ burst.dest \in down_handled
        THEN IF dest_type \in {"terminal", "gateway"} THEN lower(dest_type)
             ELSE reject
        ELSE IF mesh_architecture
        THEN IF default_entity_type = "satellite"
             \* sendToOppositeChannel
             THEN MeshOutcome("downward",
                              IF send_ok THEN "upward" ELSE "failed",
                              send_ok, send_ok)
             ELSE IF default_entity_type = "gateway" THEN lower("gateway")
             ELSE reject
        ELSE IF src_type = "terminal" THEN lower("gateway")
        ELSE IF src_type = "gateway" THEN lower("terminal")
        ELSE reject

\* BlockMesh::onInit has set the architecture and the default entity of
\* both channels; handled_entities is filled by neither
MeshInit ==
    /\ DamaConstructed
    /\ InitSucceeded
    /\ NoBackoff
    /\ saloha = FALSE
    /\ SpotUpwardConstructed
    /\ SalohaGatewayIdle
    /\ NoTal
    /\ BlocksIdle
    /\ EncapConstructed
    /\ mesh_architecture \in BOOLEAN
    /\ default_entity \in Entities
    /\ MeshEmpty

\* a burst reaches one of the channels, from the lower block, from the
\* upper block or from the inter-satellite link
ReceiveBurst ==
    /\ nb_bursts < MaxBursts
    /\ burst_at \notin {"upward", "downward"}
    /\ nb_bursts' = nb_bursts + 1
    /\ burst' \in Bursts
    /\ burst_at' \in {"upward", "downward"}
    /\ crossings' = 0
    /\ mesh_log' = [call |-> "receive", forwarded |-> FALSE]
    /\ UNCHANGED <<mesh_architecture, default_entity, up_handled,
                   down_handled, mesh_ret, encapVars, blockVars, damaVars,
                   statVars, initVars, eiedVars, upwardVars, gatewayVars,
                   talVars>>

\* the upward channel handles the burst it has received
UpwardBurst ==
    /\ burst_at = "upward"
    /\ crossings < MaxCrossings
    /\ \E send_ok \in BOOLEAN : upwardHandleNetBurst(send_ok)
    /\ UNCHANGED <<mesh_architecture, default_entity, up_handled,
                   down_handled, burst, nb_bursts, encapVars, blockVars,
                   damaVars, statVars, initVars, eiedVars, upwardVars,
                   gatewayVars, talVars>>

\* the downward channel handles the burst it has received
MeshDownwardBurst ==
    /\ burst_at = "downward"
    /\ crossings < MaxCrossings
    /\ \E send_ok \in BOOLEAN : downwardHandleNetBurst(send_ok)
    /\ UNCHANGED <<mesh_architecture, default_entity, up_handled,
                   down_handled, burst, nb_bursts, encapVars, blockVars,
                   damaVars, statVars, initVars, eiedVars, upwardVars,
                   gatewayVars, talVars>>

MeshNext == ReceiveBurst \/ UpwardBurst \/ MeshDownwardBurst

MeshSpec == MeshInit /\ [][MeshNext]_vars

\* ------------------------------------------------------------- properties
TalOf(c) == Range(tal[c])
RequestPktpf(t) == kbpsToPktpf(rbdc_request_kbps[t])
TotalRequestPktpf(c) == SumSeq(tal[c], [t \in Tal |-> RequestPktpf(t)])
TotalAlloc(t) == rbdc_alloc_pktpf[t] + vbdc_alloc_pkt[t] + fca_alloc_pktpf[t]
\* a superframe's DAMA run has gone through the RBDC, VBDC and FCA phases
SuperframeDone ==
    pc = "idle" /\ current_superframe_sf > 0 /\ update_ret
\* the RBDC phase has just run
AfterRbdc == pc = "vbdc"
\* the VBDC phase has just run
AfterVbdc == pc = "fca"
Congested(c) ==
    rbdc_log[c].ran /\ TotalRequestPktpf(c) > rbdc_log[c].remaining_before

\* C1: after a superframe's update, RBDC, VBDC and FCA phases, the
\* allocations of a carrier's terminals sum to at most the capacity the
\* carrier was given at the start of the superframe.
C1_CapacityConservation ==
    SuperframeDone =>
        \A c \in Categories :
            SumSeq(tal[c], [t \in Tal |-> TotalAlloc(t)]) <= initial_capacity[c]

\* C2: when the RBDC requests of a carrier's terminals sum to at most its
\* remaining capacity, the RBDC phase uses a fair share of 1.0, gives every
\* terminal exactly its request in packets and adds no credit.
C2_NoStarvation ==
    AfterRbdc =>
        \A c \in Categories :
            TotalRequestPktpf(c) <= rbdc_log[c].remaining_before =>
                /\ rbdc_log[c].ran => rbdc_log[c].fair_share = RatInt(1)
                /\ \A t \in TalOf(c) :
                      /\ rbdc_alloc_pktpf[t] = RequestPktpf(t)
                      /\ rbdc_credit_kbps[t] = rbdc_log[c].credit_before[t]

C2_Witness ==
    /\ AfterRbdc
    /\ \E c \in Categories :
          /\ rbdc_log[c].ran
          /\ TotalRequestPktpf(c) < rbdc_log[c].remaining_before
          /\ Cardinality(TalOf(c)) > 1
          /\ \A t \in TalOf(c) : rbdc_alloc_pktpf[t] > 0

\* C3: after every superframe every terminal's credit is at least 0 and
\* below the rate of one slot.
C3_CreditBounded ==
    pc = "idle" =>
        \A t \in Tal :
            /\ rbdc_credit_kbps[t].n >= 0
            /\ RatLt(rbdc_credit_kbps[t], RatInt(pktpfToKbps(1)))

\* C4: after every superframe a terminal's RBDC allocation is at most its
\* RBDC request in packets, and its RBDC + VBDC + FCA allocations are at
\* most its requests plus the FCA quota.
C4_AllocationWithinRequests ==
    SuperframeDone =>
        \A c \in Categories : \A t \in TalOf(c) :
            /\ rbdc_alloc_pktpf[t] <= RequestPktpf(t)
            /\ TotalAlloc(t) <= RequestPktpf(t)
                                + vbdc_log[c].request_before[t]
                                + kbpsToPktpf(fca_kbps)

\* C5: under congestion the fair share is total request / remaining
\* capacity, step 1 gives each terminal the floor of request / fair share,
\* and the fractional part, as a rate, is added to the terminal's credit;
\* requests 1000, 800, 400 on a capacity of 1000 give 454, 363, 181.
C5_CongestedStep1 ==
    /\ AfterRbdc =>
          \A c \in Categories :
              Congested(c) =>
                  LET total == TotalRequestPktpf(c)
                      remaining == rbdc_log[c].remaining_before
                      fs == rbdc_log[c].fair_share
                  IN  /\ fs.n * remaining = fs.d * total
                      /\ \A t \in TalOf(c) :
                            LET a == rbdc_log[c].step1_alloc[t]
                                r == RequestPktpf(t)
                            IN  /\ a * total <= r * remaining
                                /\ r * remaining < (a + 1) * total
                                /\ rbdc_log[c].step1_credit[t].n
                                     * rbdc_log[c].credit_before[t].d * total
                                   = ( rbdc_log[c].credit_before[t].n * total
                                       + SlotKbps * (r * remaining - a * total)
                                         * rbdc_log[c].credit_before[t].d )
                                     * rbdc_log[c].step1_credit[t].d
    /\ LET fs == FairShare(1000 + 800 + 400, 1000)
       IN  /\ fs = [n |-> 11, d |-> 5]
           /\ RatFloor(FairRbdc(1000, fs)) = 454
           /\ RatFloor(FairRbdc(800, fs)) = 363
           /\ RatFloor(FairRbdc(400, fs)) = 181

C5_Witness ==
    /\ AfterRbdc
    /\ \E c \in Categories :
          /\ Congested(c)
          /\ \E t \in TalOf(c) :
                /\ rbdc_log[c].step1_alloc[t] > 0
                /\ rbdc_log[c].credit_before[t].n > 0
                /\ rbdc_log[c].step1_credit[t] # rbdc_log[c].credit_before[t]

\* C6: a terminal awarded the extra packet of step 2 ends the RBDC phase
\* with its own step-1 share plus one packet and its credit one slot
\* lower, and each award takes one packet off the carrier's capacity.
C6_ExtraPacket ==
    AfterRbdc =>
        \A c \in Categories :
            /\ remaining_capacity[c] + Cardinality(rbdc_log[c].extra)
                 = rbdc_log[c].step1_remaining
            /\ \A t \in rbdc_log[c].extra :
                  /\ rbdc_alloc_pktpf[t] = rbdc_log[c].step1_alloc[t] + 1
                  /\ RatAdd(rbdc_credit_kbps[t], RatInt(pktpfToKbps(1)))
                       = rbdc_log[c].step1_credit[t]

\* C7: after the RBDC phase no terminal's RBDC allocation exceeds its
\* max_rbdc in packets; a terminal whose credit exceeds one slot while
\* capacity remains gets the extra packet exactly when it is at least one
\* packet below its maximum.
C7_MaxRbdcRespected ==
    AfterRbdc =>
        \A c \in Categories :
            /\ \A t \in TalOf(c) :
                  rbdc_alloc_pktpf[t] <= kbpsToPktpf(max_rbdc_kbps[t])
            /\ \A t \in rbdc_log[c].over_slot :
                  t \in rbdc_log[c].extra
                  <=> rbdc_log[c].step1_alloc[t] + 1
                        <= kbpsToPktpf(max_rbdc_kbps[t])

\* the requests served before place i of the VBDC order
RECURSIVE VbdcPrefix(_, _, _)
VbdcPrefix(order, request, i) ==
    IF i <= 1 THEN 0
    ELSE request[order[i - 1]] + VbdcPrefix(order, request, i - 1)

\* C8: VBDC serves the terminals in descending order of their request; a
\* request that fits in what remains is served whole, the first one that
\* does not fit gets what remains, and the terminals after it get nothing.
C8_VbdcRule ==
    AfterVbdc =>
        \A c \in Categories :
            LET order == vbdc_log[c].order
                req == vbdc_log[c].request_before
                R == vbdc_log[c].remaining_before
            IN  IF ~vbdc_log[c].ran
                THEN \A t \in TalOf(c) : vbdc_alloc_pkt[t] = 0
                ELSE
                /\ Range(order) = TalOf(c) /\ Len(order) = Len(tal[c])
                /\ \A i, j \in 1..Len(order) :
                      i < j => req[order[i]] >= req[order[j]]
                /\ \A i \in 1..Len(order) :
                      LET before == VbdcPrefix(order, req, i)
                          t == order[i]
                      IN  vbdc_alloc_pkt[t] =
                            IF before + req[t] <= R THEN req[t]
                            ELSE IF before <= R THEN R - before
                            ELSE 0

C8_Witness ==
    /\ AfterVbdc
    /\ \E c \in Categories :
          LET order == vbdc_log[c].order
              req == vbdc_log[c].request_before
          IN  /\ vbdc_log[c].partial
              /\ Len(order) = 3
              /\ vbdc_alloc_pkt[order[1]] = req[order[1]]
              /\ vbdc_alloc_pkt[order[2]] > 0
              /\ vbdc_alloc_pkt[order[2]] < req[order[2]]
              /\ req[order[3]] > 0
              /\ vbdc_alloc_pkt[order[3]] = 0
              /\ order # tal[c]

\* C9: when VBDC serves a request only in part, the carrier's remaining
\* capacity is 0 afterwards, which is what the FCA phase then reads.
C9_VbdcExhaustion ==
    AfterVbdc =>
        \A c \in Categories :
            vbdc_log[c].partial => remaining_capacity[c] = 0

\* a partially served VBDC request, as in S4 (100 and 60 on 90): the
\* first request gets what remains, the second one nothing
C9_Scenario ==
    /\ AfterVbdc
    /\ \E c \in Categories :
          /\ vbdc_log[c].partial
          /\ vbdc_log[c].remaining_before > 0

\* C10: updateCarriersAndFmts sets every carrier's remaining capacity to
\* its symbol capacity converted to kbits with the carrier's first MODCOD
\* and then to packets, whatever the previous superframe left; with a
\* carrier context missing it returns false.
C10_CapacityReset ==
    /\ pc = "rbdc" =>
          /\ update_ret
          /\ \A c \in Categories :
                remaining_capacity[c]
                  = ((SpectralEfficiency(fmt_ids[c][1]) * total_capacity_sym[c])
                        \div 1000) \div PktKbits
    /\ (pc = "idle" /\ current_superframe_sf > 0
        /\ \E c \in Categories : ~carrier_ctxt[c]) => ~update_ret

C10_Witness ==
    /\ pc = "rbdc"
    /\ current_superframe_sf > 1
    /\ \E c \in Categories :
          /\ residue[c] > 0
          /\ residue[c] < remaining_capacity[c]

\* the place of terminal t in a sequence of terminals
Pos(seq, t) == CHOOSE i \in 1..Len(seq) : seq[i] = t

\* C11: step 2 of the RBDC phase visits a carrier's terminals by descending
\* credit and the FCA phase visits them by ascending credit, so of two
\* terminals whose credits differ the same way at both moments the one
\* visited first in step 2 is visited last by FCA.
C11_CreditOrdering ==
    SuperframeDone =>
        \A c \in Categories :
            LET order2 == rbdc_log[c].order2
                credit2 == rbdc_log[c].step1_credit
                order == fca_log[c].order
            IN  /\ \A i, j \in 1..Len(order2) :
                      i < j => RatLe(credit2[order2[j]], credit2[order2[i]])
                /\ \A i, j \in 1..Len(order) :
                      i < j => RatLe(rbdc_credit_kbps[order[i]],
                                     rbdc_credit_kbps[order[j]])
                /\ (order2 # <<>> /\ order # <<>>) =>
                      \A t, u \in TalOf(c) :
                          ( /\ RatLt(credit2[u], credit2[t])
                            /\ RatLt(rbdc_credit_kbps[u], rbdc_credit_kbps[t]) )
                          => /\ Pos(order2, t) < Pos(order2, u)
                             /\ Pos(order, u) < Pos(order, t)

\* C12: with fca_kbps = 0, computeDamaFca returns true and changes no FCA
\* allocation, no carrier's remaining capacity and no remaining-capacity
\* statistic.
C12_FcaDisabledNoOp ==
    [][(pc = "fca" /\ fca_kbps = 0) =>
          /\ fca_ret' = TRUE
          /\ UNCHANGED <<fca_alloc_pktpf, remaining_capacity, statVars>>]_vars

\* FCA is disabled and has returned while a carrier with terminals still
\* holds capacity
C12_Witness ==
    /\ SuperframeDone
    /\ fca_kbps = 0
    /\ fca_ret
    /\ \E c \in Categories :
          /\ tal[c] # <<>>
          /\ remaining_capacity[c] > 0
          /\ carrier_return_remaining_capacity_kbps[c][CarriersId(c)] > 0

\* C13: a carrier whose remaining capacity is 0 when the RBDC phase starts
\* is skipped: the fair share is not computed (no division by zero), its
\* terminals' allocations and credits and its capacity are left as they
\* were, and the other categories' carriers are still served.
C13_ZeroCapacitySkipped ==
    AfterRbdc =>
        \A c \in Categories :
            rbdc_log[c].remaining_before = 0 =>
                /\ ~rbdc_log[c].ran
                /\ remaining_capacity[c] = 0
                /\ \A t \in TalOf(c) :
                      /\ rbdc_alloc_pktpf[t] = 0
                      /\ rbdc_credit_kbps[t] = rbdc_log[c].credit_before[t]
                /\ \A b \in Categories \ {c} :
                      ( /\ rbdc_log[b].remaining_before > 0
                        /\ TotalRequestPktpf(b) > 0 )
                      => /\ rbdc_log[b].ran
                         /\ \A t \in TalOf(b) :
                               rbdc_alloc_pktpf[t] = rbdc_log[b].step1_alloc[t]
                               \/ t \in rbdc_log[b].extra

C13_Witness ==
    /\ AfterRbdc
    /\ \E c, b \in Categories :
          /\ rbdc_log[c].remaining_before = 0
          /\ TotalRequestPktpf(c) > 0
          /\ rbdc_log[b].ran
          /\ \E t \in TalOf(b) : rbdc_alloc_pktpf[t] > 0

\* C14: init returns false when a category has more than one carriers
\* group or a carriers group of more than one carrier; otherwise, when
\* DamaCtrlRcs2::init succeeded, it returns true and has registered one
\* remaining-capacity entry at 0 per carrier and one per category.
C14_OneCarrierPerCategory ==
    init_done =>
        IF \E c \in Categories :
              \/ Len(carriers_groups[c]) > 1
              \/ \E g \in 1..Len(carriers_groups[c]) : carriers_groups[c][g] > 1
        THEN ~init_ret
        ELSE /\ init_ret = parent_init_ret
             /\ init_ret =>
                   /\ DOMAIN category_return_remaining_capacity_kbps = Categories
                   /\ \A c \in Categories :
                         /\ category_return_remaining_capacity_kbps[c] = 0
                         /\ Cardinality(DOMAIN
                               carrier_return_remaining_capacity_kbps[c])
                              = SumSeq(carriers_groups[c], [n \in 1..MaxCarriersNumber |-> n])
                         /\ \A i \in DOMAIN
                               carrier_return_remaining_capacity_kbps[c] :
                               carrier_return_remaining_capacity_kbps[c][i] = 0

\* init has refused a plan whose first category is fine and whose second
\* one has a single carriers group of two carriers
C14_Witness ==
    /\ init_done
    /\ parent_init_ret
    /\ ~init_ret
    /\ carriers_groups[1] = <<1>>
    /\ Len(carriers_groups[2]) = 1
    /\ carriers_groups[2][1] > 1
    /\ DOMAIN category_return_remaining_capacity_kbps = {1}

\* the integer part of window * sqrt(m), for small window and m
FloorTimesSqrt(window, m) ==
    CHOOSE r \in 0..(window * Max(m, 1)) :
        r * r <= window * window * m /\ window * window * m < (r + 1) * (r + 1)

\* C18: the contention window never exceeds cw_max, and setNok leaves
\* cw = min(cw * multiple, cw_max).
C18_WindowBounded ==
    /\ cw <= cw_max
    /\ backoff_log.call = "setNok" =>
          cw = IF IntProductOverflows(backoff_log.cw_before, multiple)
               THEN cw_max
               ELSE Min(backoff_log.cw_before * multiple, cw_max)

\* C19: setOk leaves cw = min(cw * sqrt(multiple), cw_max), also when
\* multiple is not a perfect square (stated for windows and multiples
\* up to 100, on the integer part of the product).
C19_SuccessUpdate ==
    ( /\ backoff_log.call = "setOk"
      /\ backoff_log.cw_before <= 100
      /\ multiple <= 100 )
    => cw = Min(FloorTimesSqrt(backoff_log.cw_before, multiple), cw_max)


\* C20: when a SoF carries the number of the SoF processed before it, the
\* superframe counter is left as it is and no further schedule round of
\* Slotted Aloha is run
C20_DuplicateSofDiscarded ==
    (/\ saloha
     /\ sof_log.called
     /\ sof_log.sof_before
     /\ sof_log.sfn # NoFrame
     /\ sof_log.sfn = sof_log.counter_before)
    => /\ super_frame_counter = sof_log.counter_before
       /\ nb_schedule = sof_log.nb_schedule_before

\* the counter alone: a duplicate SoF leaves it as it is
C20_CounterKept ==
    (/\ saloha
     /\ sof_log.called
     /\ sof_log.sof_before
     /\ sof_log.sfn # NoFrame
     /\ sof_log.sfn = sof_log.counter_before)
    => super_frame_counter = sof_log.counter_before


AllCollided(p) ==
    /\ p[2] < next_base[p[1]]
    /\ \A f \in in_flight : <<f.tal, f.base>> # p
    /\ ~InSlots(p, sa_slots)
    /\ clean_sf[p] = 0

TalHolds(b) ==
    \/ \E w \in packets_wait_ack : w.base = b
    \/ \E i \in 1..Len(retransmission_packets) :
          retransmission_packets[i].base = b

\* C17: no packet of the terminal is transmitted more than
\* nb_max_retransmissions + 1 times; a packet whose last allowed
\* transmission timed out is dropped, and is neither waiting for an ACK
\* nor for a retransmission
C17_RetransmissionCap ==
    \A b \in TalPackets :
        /\ tx_count[b] <= nb_max_retransmissions + 1
        /\ b \in dropped =>
              (tx_count[b] = nb_max_retransmissions + 1 /\ ~TalHolds(b))
        /\ (/\ tx_count[b] = nb_max_retransmissions + 1
            /\ ~TalHolds(b)
            /\ b \notin acked) => b \in dropped

\* a packet was dropped after two retransmissions
C17_Witness ==
    \E b \in TalPackets :
        b \in dropped /\ tx_count[b] = 3 /\ nb_max_retransmissions = 2


\* C21: a SoF whose number is lower than the superframe counter is
\* ignored: the counter does not decrease and no schedule round is run
C21_BackwardsSofIgnored ==
    (/\ saloha
     /\ sof_log.called
     /\ sof_log.sfn # NoFrame
     /\ sof_log.sfn < sof_log.counter_before)
    => /\ super_frame_counter = sof_log.counter_before
       /\ nb_schedule = sof_log.nb_schedule_before


\* the terminal lists are as the last logon request found them
LogonChangedNothing ==
    /\ input_sts = logon_log.input_before
    /\ output_sts = logon_log.output_before
    /\ is_tal_scpc = logon_log.scpc_before
    /\ saloha_terminals = logon_log.saloha_before

\* C22: a logon request with the MAC id of the NCC or of a gateway is
\* refused (onRcvLogonReq returns false) and the terminal lists, the SCPC
\* list and the Slotted Aloha terminals are left as they were
C22_NccIdentityRejected ==
    (logon_log.called /\ (logon_log.mac \in GwIds \/ logon_log.mac = mac_id))
    => (~logon_log.ret /\ LogonChangedNothing)

\* a gateway other than the NCC asked to log on after a terminal did
C22_Witness ==
    /\ logon_log.called
    /\ logon_log.mac \in GwIds
    /\ logon_log.mac # mac_id
    /\ ~logon_log.ret
    /\ logon_log.input_before # {}

\* C23: a logon request of a terminal that is already logged on is
\* refused, and the terminal lists, the SCPC list and the Slotted Aloha
\* terminals are left as they were
C23_DuplicateLogonRejected ==
    (/\ logon_log.called
     /\ logon_log.mac \in logon_log.input_before
     /\ logon_log.mac \in logon_log.output_before)
    => (~logon_log.ret /\ LogonChangedNothing)


\* the last call left the queue and the current counters as it found them
FifoContentKept ==
    /\ fifo_queue = fifo_log.queue_before
    /\ stat_context.current_pkt_nbr = fifo_log.stat_before.current_pkt_nbr
    /\ stat_context.current_length_bytes =
          fifo_log.stat_before.current_length_bytes

C25_Accounting ==
    /\ stat_context.current_pkt_nbr = Len(fifo_queue)
    /\ stat_context.current_length_bytes = SumLengths(fifo_queue)
    /\ cur_length_bytes = SumLengths(fifo_queue)
    /\ (fifo_log.op = "pop" /\ fifo_log.queue_before = <<>>) =>
          (~fifo_log.ret /\ FifoContentKept
           /\ (fifo_mutex = "free" => stat_context = fifo_log.stat_before))

\* elements went in at both ends and one was popped
C25_Witness ==
    /\ fifo_log.op = "pop"
    /\ fifo_log.ret
    /\ fifo_log.prev_op = "pushFront"
    /\ Len(fifo_queue) = 1
    /\ stat_context.out_pkt_nbr = 1

\* C26: every packet pushed, popped or dropped is counted in exactly one
\* returned context, and a getStatsCxt that follows another returns
\* per-period counters at zero
C26_SnapshotAtomic ==
    fifo_mutex = "free" =>
      /\ fifo_counted.in = fifo_returned.in + stat_context.in_pkt_nbr
      /\ fifo_counted.out = fifo_returned.out + stat_context.out_pkt_nbr
      /\ fifo_counted.drop = fifo_returned.drop + stat_context.drop_pkt_nbr
      /\ (fifo_log.op = "getStatsCxt" /\ fifo_log.prev_op = "getStatsCxt")
            => stat_info = resetStats(stat_info)

\* two contexts were returned, the first with a packet in, one out and
\* one dropped
C26_Witness ==
    /\ fifo_mutex = "free"
    /\ fifo_log.op = "getStatsCxt"
    /\ fifo_log.prev_op = "getStatsCxt"
    /\ fifo_returned.in > 0
    /\ fifo_returned.out > 0
    /\ fifo_returned.drop > 0


\* C27: each frame of a list given to sendBursts is either handed to the
\* lower layer or deleted exactly once; the list is empty afterwards and
\* the result is false exactly when a frame failed
C27_SingleDestruction ==
    frames_sent # <<>> =>
      /\ complete_frames = <<>>
      /\ \A i \in 1..Len(frames_sent) :
            frames_sent[i] # "null" =>
              \/ frame_handed[i] /\ frame_deleted[i] = 0
              \/ ~frame_handed[i] /\ frame_deleted[i] = 1
      /\ ~send_status <=> \E i \in 1..Len(frames_sent) : ~frame_handed[i]

\* the same when every enqueueMessage succeeds
C27_WithoutEnqueueFailure ==
    (frames_sent # <<>> /\ \A i \in 1..Len(frames_sent) :
                             frame_deleted[i] < 2) =>
      /\ complete_frames = <<>>
      /\ \A i \in 1..Len(frames_sent) :
            frames_sent[i] # "null" =>
              \/ frame_handed[i] /\ frame_deleted[i] = 0
              \/ ~frame_handed[i] /\ frame_deleted[i] = 1
      /\ ~send_status <=> \E i \in 1..Len(frames_sent) : ~frame_handed[i]

\* the packet after the one put in buf is in the stack of its source
NextIsStacked ==
    /\ recv_buf # NoPacket
    /\ hasNext(stacks[recv_buf.ip], NextSeq(recv_buf.seq))

\* C28: on a data channel receive returns 1 exactly when it has given a
\* packet to the caller and the packet of the same source with the next
\* sequence number is stacked; it returns 0 otherwise and -1 on error
C28_ReturnCode ==
    (is_data /\ udp_log.call = "receive" /\ ~udp_log.short /\ m_input)
    => /\ recv_ret \in {0, 1}
       /\ recv_ret = 1 <=> NextIsStacked

\* C29: a signalling datagram whose number is not the counter plus one,
\* and a datagram shorter than the sequence prefix, are not given to the
\* caller nor processed with a wrapped length
C29_TransportErrorsDropped ==
    (/\ udp_log.call = "receive"
     /\ m_input
     /\ \/ ~is_data /\ udp_log.gap
        \/ udp_log.short /\ (~is_data \/ stacked_ip = NoIp))
    => (recv_buf = NoPacket /\ ~udp_log.wrapped_length)

\* C30: the first datagram of a source on a data channel is given to the
\* caller with return 0 and leaves the source's counter at the
\* datagram's number, without a missing counter entry being dereferenced
C30_FirstDatagramSynchronises ==
    (is_data /\ udp_log.call = "receive" /\ udp_log.new_source
     /\ ~udp_log.short)
    => /\ recv_ret = 0
       /\ recv_buf = [ip |-> udp_log.ip, seq |-> udp_log.seq]
       /\ udp_counters[udp_log.ip] = udp_log.seq
       /\ ~udp_log.end_dereferenced


\* the stack of a source was sent after packets were taken as lost
UdpStackSent == udp_log.call = "receiveStacked" /\ recv_buf # NoPacket

\* C31: on a data channel the packets of a source are given to the caller
\* with consecutive sequence numbers modulo the counter's range, except
\* right after packets of the source were taken as lost, and a packet
\* given to the caller has left the stack
C31_InOrderDelivery ==
    /\ (handed_log.ip # NoIp /\ handed_log.prev # NoCounter
        /\ ~handed_log.after_loss)
       => handed_log.seq = NextSeq(handed_log.prev)
    /\ (is_data /\ recv_buf # NoPacket)
       => ~hasNext(stacks[recv_buf.ip], recv_buf.seq)

SofLoopEntered ==
    /\ udp_log.call = "sofReceived"
    /\ udp_log.loop_entered
    /\ udp_log.loop_steps > 0

\* every counter of a sequence field of size bytes is read back from its
\* stamp
RoundTrip(size) ==
    \A counter \in 0..(max_counter(size) - 1) :
       decode(size, stamp(size, counter)) = counter

\* C32: a successful send stamps the datagram with the counter, high byte
\* first when the field has two bytes, so that the number read back by the
\* receiver is the counter, and then advances the counter by one modulo
\* its range; a failed send leaves the counter unchanged
C32_SenderCounter ==
    [][nb_sends' = nb_sends + 1
       => IF send_ret'
          THEN /\ Len(send_buffer') = counter_size
               /\ send_buffer'[1] =
                     IF counter_size = 2 THEN send_counter \div 256
                     ELSE send_counter
               /\ decode(counter_size, send_buffer') = send_counter
               /\ RoundTrip(counter_size)
               /\ send_counter' =
                     IF send_counter = max_counter(counter_size) - 1 THEN 0
                     ELSE send_counter + 1
          ELSE send_counter' = send_counter]_vars

\* a two-byte counter has been stamped at its largest value and has
\* wrapped to 0
C32_CounterWrapped ==
    /\ send_ret
    /\ nb_sends > 0
    /\ counter_size = 2
    /\ send_buffer = <<255, 255>>
    /\ send_counter = 0

\* C34: the encapsulation block is link_down until the first 'link up'
\* message, whose identifiers it keeps and which it has sent to the upper
\* layer whenever it is link_up; no later 'link up' message is sent up
C34_LinkUpStateMachine ==
    /\ state = "link_down"
       => (group_id = -1 /\ tal_id = -1 /\ link_up_sent = <<>>)
    /\ state = "link_up"
       => link_up_sent = <<[group_id |-> group_id, tal_id |-> tal_id]>>

\* C35: no two timers of the timers map are for the same context; a
\* timer that fires has left the map when its context is flushed; a timer
\* event that is not in the map returns false and changes nothing
C35_OneTimerPerContext ==
    /\ \A t, u \in DOMAIN timers : t # u => timers[t] # timers[u]
    /\ (encap_log.call = "onTimer" /\ encap_log.found)
       => ~encap_log.armed_at_flush
    /\ (encap_log.call = "onTimer" /\ ~encap_log.found)
       => (~encap_ret /\ timers = encap_log.timers_before)

\* a timer has fired and left the map while the timer of another context
\* stays armed
C35_TimerFired ==
    /\ encap_log.call = "onTimer"
    /\ encap_log.found
    /\ Cardinality(DOMAIN encap_log.timers_before) = NbContexts
    /\ Cardinality(DOMAIN timers) = NbContexts - 1

\* the burst's destination is not handled, in a mesh architecture whose
\* default entity is a satellite
ToNextSatellite(handled) ==
    /\ mesh_architecture
    /\ burst.dest \notin handled
    /\ default_entity = 3

\* C39: the upward channel gives a burst to the downward channel only when
\* the burst is not for the next satellite, the downward channel gives it
\* to the upward channel only when it is; a burst goes from a channel to
\* the opposite one at most once, and an empty burst produces no message
C39_NoPingPong ==
    /\ crossings <= 1
    /\ (mesh_log.call = "upward" /\ mesh_log.forwarded)
       => (~ToNextSatellite(up_handled) /\ burst_at = "downward")
    /\ (mesh_log.call = "downward" /\ mesh_log.forwarded)
       => (ToNextSatellite(down_handled) /\ burst_at = "upward")
    /\ (mesh_log.call \in {"upward", "downward"} /\ burst.empty)
       => (burst_at = "dropped" /\ mesh_ret /\ crossings = 0)

\* a burst given by the downward channel to the upward one has left on
\* the inter-satellite link
C39_SentViaIsl ==
    /\ mesh_log.call = "upward"
    /\ crossings = 1
    /\ burst_at = "isl"

\* C36: after any sequence of logon requests, accepted or not, a terminal
\* is in the input list exactly when it is in the output list, and a
\* request that fails has extended neither
C36_TerminalListsPaired ==
    /\ input_sts = output_sts
    /\ (logon_log.called /\ ~logon_log.ret)
       => (input_sts = logon_log.input_before
           /\ output_sts = logon_log.output_before)

\* C37: the RBDC computation on a carrier that has capacity left and no
\* terminal allocates nothing and leaves the capacity as it is, without
\* reading a terminal context
C37_EmptyCarrierNoOp ==
    \A c \in Categories :
       (tal[c] = <<>> /\ rbdc_log[c].remaining_before # 0)
       => /\ ~rbdc_log[c].ran
          /\ rbdc_log[c].step1_remaining = rbdc_log[c].remaining_before
          /\ rbdc_log[c].terminal_read = "none"
          /\ pc # "crashed"

\* C38: no call of setOk or setNok shrinks the contention window; a window
\* that has reached cw_max stays there and a window of 0 stays 0
C38_WindowNeverShrinks ==
    [][/\ cw' >= cw
       /\ cw = cw_max => cw' = cw_max
       /\ cw = 0 => cw' = 0]_vars

====
